---- MODULE Spec2Model ----
(***************************************************************************)
(* A model of the chemistry-lab store (src/src/store/labStore.ts): the     *)
(* vessel content model, the sandbox reaction matcher, the filtration      *)
(* buffer and the guided-experiment engine.  Every store handler is a pure *)
(* operator from a store snapshot to the next snapshot, as the zustand     *)
(* `set((state) => ...)` reducers are; the actions commit its result.      *)
(*                                                                         *)
(* Volumes are JavaScript numbers in the source.  They are modelled as     *)
(* exact rationals <<numerator, denominator>> (denominator > 0, lowest     *)
(* terms), i.e. IEEE rounding (about 1e-16 relative) is abstracted away;   *)
(* every threshold of the code (0.01, capacities) is kept exactly.         *)
(***************************************************************************)
EXTENDS Integers, Sequences, FiniteSets, TLC

(***************************************************************************)
(* Rational arithmetic.                                                    *)
(***************************************************************************)
RECURSIVE GCD(_, _)
GCD(a, b) == IF b = 0 THEN a ELSE GCD(b, a % b)

Abs(x) == IF x < 0 THEN -x ELSE x

Norm(n, d) == LET g == GCD(Abs(n), d) IN <<n \div g, d \div g>>

Zero == <<0, 1>>

\* the number n
R(n) == <<n, 1>>

\* the numerators of a and b over the least common denominator
Scaled(a, b) ==
    LET g == GCD(a[2], b[2]) IN <<a[1] * (b[2] \div g), b[1] * (a[2] \div g), (a[2] \div g) * b[2]>>

RAdd(a, b) == LET s == Scaled(a, b) IN Norm(s[1] + s[2], s[3])

RSub(a, b) == LET s == Scaled(a, b) IN Norm(s[1] - s[2], s[3])

RMul(a, b) ==
    LET g1 == GCD(Abs(a[1]), b[2])
        g2 == GCD(Abs(b[1]), a[2])
    IN IF a[1] = 0 \/ b[1] = 0 THEN Zero
       ELSE <<(a[1] \div g1) * (b[1] \div g2), (a[2] \div g2) * (b[2] \div g1)>>

\* a / b for b > 0 (the code divides by source.currentVolume > 0 and by
\* products.length > 0 only)
RDiv(a, b) == RMul(a, <<b[2], b[1]>>)

RLt(a, b) == LET s == Scaled(a, b) IN s[1] < s[2]

RLe(a, b) == LET s == Scaled(a, b) IN s[1] <= s[2]

\* Math.min
RMin(a, b) == IF RLe(a, b) THEN a ELSE b

RAbs(a) == <<Abs(a[1]), a[2]>>

\* the pruning threshold 0.01 of transferLiquid
Eps == <<1, 100>>

(***************************************************************************)
(* Array helpers (Array.prototype.includes / findIndex).                   *)
(***************************************************************************)
Includes(seq, x) == \E i \in 1..Len(seq) : seq[i] = x

Range(seq) == {seq[i] : i \in 1..Len(seq)}

\* contents.findIndex(c => c.chemical.id === id); 0 stands for -1
FindIndex(contents, id) ==
    IF \E i \in 1..Len(contents) : contents[i].chemical = id
    THEN CHOOSE i \in 1..Len(contents) :
            /\ contents[i].chemical = id
            /\ \A j \in 1..(i - 1) : contents[j].chemical # id
    ELSE 0

RECURSIVE SumVolumes(_)
SumVolumes(contents) ==
    IF contents = <<>> THEN Zero
    ELSE RAdd(contents[1].volume, SumVolumes(Tail(contents)))

(***************************************************************************)
(* Chemical registry and reaction rules (ReactionManager).                 *)
(***************************************************************************)
\* Chemical.type by id; ids of guided experiments carry no rule category
ChemType(id) ==
    CASE id = "water" -> "water"
      [] id = "hydrochloric_acid" -> "acid"
      [] id = "sulfuric_acid" -> "acid"
      [] id = "sodium_hydroxide" -> "base"
      [] id = "zinc" -> "metal"
      [] id = "phenolphthalein" -> "indicator"
      [] id \in {"sodium_chloride", "barium_chloride", "silver_nitrate",
                 "barium_sulfate", "silver_chloride", "zinc_chloride"} -> "salt"
      [] OTHER -> "neutral"

REACTIONS ==
    << [id |-> "acid_base_neutralization", type1 |-> "acid", type2 |-> "base",
        products |-> <<"water", "sodium_chloride">>,
        effects |-> <<"color_change", "heat">>],
       [id |-> "acid_metal_reaction", type1 |-> "acid", type2 |-> "metal",
        products |-> <<"hydrogen_gas", "zinc_chloride">>,
        effects |-> <<"bubbles", "heat">>],
       [id |-> "indicator_base", type1 |-> "indicator", type2 |-> "base",
        products |-> <<"sodium_hydroxide">>,
        effects |-> <<"color_change">>],
       [id |-> "barium_sulfate_precipitation", type1 |-> "salt", type2 |-> "acid",
        products |-> <<"barium_sulfate">>,
        effects |-> <<"precipitate">>] >>

NoReaction == 0

RuleMatches(r, t1, t2) ==
    \/ (r.type1 = t1 /\ r.type2 = t2)
    \/ (r.type1 = t2 /\ r.type2 = t1)

\* a lookup that takes the pair in the order given
findReactionOrdered(t1, t2) ==
    IF \E k \in 1..Len(REACTIONS) : REACTIONS[k].type1 = t1 /\ REACTIONS[k].type2 = t2
    THEN CHOOSE k \in 1..Len(REACTIONS) :
            /\ REACTIONS[k].type1 = t1 /\ REACTIONS[k].type2 = t2
            /\ \A m \in 1..(k - 1) :
                  ~(REACTIONS[m].type1 = t1 /\ REACTIONS[m].type2 = t2)
    ELSE NoReaction

\* ReactionManager.findReaction: index of the first rule matching the pair, or 0
findReaction(t1, t2) ==
    IF \E k \in 1..Len(REACTIONS) : RuleMatches(REACTIONS[k], t1, t2)
    THEN CHOOSE k \in 1..Len(REACTIONS) :
            /\ RuleMatches(REACTIONS[k], t1, t2)
            /\ \A m \in 1..(k - 1) : ~RuleMatches(REACTIONS[m], t1, t2)
    ELSE NoReaction

PairReacts(contents, i, j) ==
    findReaction(ChemType(contents[i].chemical), ChemType(contents[j].chemical)) # NoReaction

\* (i, j) precedes (k, l) in the nested loops of checkReaction
PairBefore(i, j, k, l) == i < k \/ (i = k /\ j < l)

\* ReactionManager.checkReaction: the rule of the first reacting pair, or 0
checkReaction(contents) ==
    LET n == Len(contents)
        pairs == {p \in (1..n) \X (1..n) : p[1] < p[2] /\ PairReacts(contents, p[1], p[2])}
    IN IF n < 2 \/ pairs = {} THEN NoReaction
       ELSE LET first == CHOOSE p \in pairs :
                            \A q \in pairs : q = p \/ PairBefore(p[1], p[2], q[1], q[2])
            IN findReaction(ChemType(contents[first[1]].chemical),
                            ChemType(contents[first[2]].chemical))

(***************************************************************************)
(* Experiment definitions (core/experiments).  An outcome-table key is the *)
(* sequence of its '+'-separated tokens (String.split('+')): ids hold no   *)
(* '+', so two keys are equal strings iff their token sequences are equal. *)
(* Object.keys keeps the insertion order of the table.                     *)
(***************************************************************************)
ActionVocabulary == {"stir", "heat", "filter", "evaporate", "pour"}

\* the tokens of the model in the order of Array.prototype.sort (UTF-16 code units)
LexOrder ==
    << "baking-soda", "blue-litmus", "evaporate", "filter", "hcl", "heat", "ice",
       "lemon-juice", "magnesium", "muddy-water", "naoh", "no-such-id", "paper",
       "phenolphthalein", "pour", "red-litmus", "salt", "salt-solution", "sand",
       "soap-solution", "stir", "vinegar", "water" >>

Rank(t) == CHOOSE i \in 1..Len(LexOrder) : LexOrder[i] = t

RECURSIVE InsertSorted(_, _)
InsertSorted(seq, x) ==
    IF seq = <<>> THEN <<x>>
    ELSE IF Rank(x) < Rank(seq[1]) THEN <<x>> \o seq
    ELSE <<seq[1]>> \o InsertSorted(Tail(seq), x)

\* [...seq].sort()
RECURSIVE Sort(_)
Sort(seq) == IF seq = <<>> THEN <<>> ELSE InsertSorted(Sort(Tail(seq)), seq[1])

Outcome(key, success) == [key |-> key, success |-> success]

SaltDissolution ==
    [id |-> "salt-dissolution",
     chemicals |-> <<"water", "salt", "sand">>,
     reactions |-> << Outcome(<<"water", "salt", "stir">>, TRUE),
                      Outcome(<<"water", "sand", "stir">>, TRUE),
                      Outcome(<<"water", "salt">>, FALSE),
                      Outcome(<<"water", "sand">>, FALSE) >>]

Filtration ==
    [id |-> "filtration",
     chemicals |-> <<"muddy-water">>,
     reactions |-> << Outcome(<<"muddy-water">>, FALSE),
                      Outcome(<<"muddy-water", "pour">>, FALSE),
                      Outcome(<<"muddy-water", "pour", "filter">>, TRUE) >>]

Evaporation ==
    [id |-> "evaporation",
     chemicals |-> <<"salt-solution">>,
     reactions |-> << Outcome(<<"salt-solution">>, FALSE),
                      Outcome(<<"salt-solution", "heat">>, FALSE),
                      Outcome(<<"salt-solution", "heat", "evaporate">>, TRUE) >>]

PhysicalChemical ==
    [id |-> "physical-chemical",
     chemicals |-> <<"ice", "paper", "magnesium">>,
     reactions |-> << Outcome(<<"ice", "heat">>, TRUE),
                      Outcome(<<"paper", "heat">>, TRUE),
                      Outcome(<<"magnesium", "heat">>, TRUE) >>]

AcidsBases ==
    [id |-> "acids-bases",
     chemicals |-> <<"vinegar", "lemon-juice", "soap-solution", "baking-soda",
                     "blue-litmus", "red-litmus">>,
     reactions |-> << Outcome(<<"vinegar", "blue-litmus">>, TRUE),
                      Outcome(<<"vinegar", "red-litmus">>, TRUE),
                      Outcome(<<"lemon-juice", "blue-litmus">>, TRUE),
                      Outcome(<<"lemon-juice", "red-litmus">>, TRUE),
                      Outcome(<<"soap-solution", "blue-litmus">>, TRUE),
                      Outcome(<<"soap-solution", "red-litmus">>, TRUE),
                      Outcome(<<"baking-soda", "blue-litmus">>, TRUE),
                      Outcome(<<"baking-soda", "red-litmus">>, TRUE) >>]

Neutralization ==
    [id |-> "neutralization",
     chemicals |-> <<"naoh", "phenolphthalein", "hcl">>,
     reactions |-> << Outcome(<<"naoh">>, FALSE),
                      Outcome(<<"naoh", "phenolphthalein">>, FALSE),
                      Outcome(<<"naoh", "phenolphthalein", "hcl">>, TRUE) >>]

experimentsData ==
    << SaltDissolution, Filtration, Evaporation, PhysicalChemical, AcidsBases,
       Neutralization >>

\* currentExperiment: null
NoExperiment == [id |-> "null", chemicals |-> <<>>, reactions |-> <<>>]

\* getExperimentById: the first experiment with the id, or undefined (NoExperiment)
getExperimentById(id) ==
    IF \E i \in 1..Len(experimentsData) : experimentsData[i].id = id
    THEN experimentsData[CHOOSE i \in 1..Len(experimentsData) : experimentsData[i].id = id]
    ELSE NoExperiment

(***************************************************************************)
(* The store (interface LabStore) and its pending one-shot callbacks.      *)
(***************************************************************************)
VARIABLES
    vessels,                  \* Map<string, LabVessel>: id -> vessel
    pendingFiltrationVolume,  \* the filtration buffer
    bunsenBurnerOn,
    currentExperiment,        \* Experiment | null
    placedApparatus,
    addedChemicals,
    experimentActions,
    currentObservation,
    currentExplanation,
    showExplanation,
    experimentHeatLevel,
    experimentStirCount,
    isStirring,
    completedExperiments,
    storedCompleted,          \* localStorage 'completedExperiments'
    saltTested,
    sandTested,
    resetAfterSaltTest,
    showResetPrompt,
    resetPromptMessage,
    showCompletionPopup,
    iceTested,
    paperTested,
    magnesiumTested,
    neutralizationAnimating,
    neutralizationDropCount,
    neutralizationComplete,
    wasFilteringRef,          \* FilterFunnel: wasFilteringRef.current
    temperature,              \* vessel.temperature of the vessels that are heated
    burnerDistance,           \* distance of vessel.position from the heating zone
    activeEffects,            \* effects started by applied reactions
    reactionNotification,     \* the rule of the last applied reaction, or none
    volumeOps,                \* bookkeeping: number of volume-changing commands so far
    timers,                   \* callbacks scheduled with setTimeout, oldest first
    last                      \* history: the last command, its inputs, the store before it

vars ==
    << vessels, pendingFiltrationVolume, bunsenBurnerOn, currentExperiment,
       placedApparatus, addedChemicals, experimentActions, currentObservation,
       currentExplanation, showExplanation, experimentHeatLevel,
       experimentStirCount, isStirring, completedExperiments, storedCompleted,
       saltTested, sandTested, resetAfterSaltTest, showResetPrompt,
       resetPromptMessage, showCompletionPopup, iceTested, paperTested,
       magnesiumTested, neutralizationAnimating, neutralizationDropCount,
       neutralizationComplete, wasFilteringRef, temperature, burnerDistance,
       activeEffects, reactionNotification, volumeOps, timers, last >>

\* the store as one value: what get() returns, with the pending callbacks
Store ==
    [vessels |-> vessels,
     pendingFiltrationVolume |-> pendingFiltrationVolume,
     bunsenBurnerOn |-> bunsenBurnerOn,
     currentExperiment |-> currentExperiment,
     placedApparatus |-> placedApparatus,
     addedChemicals |-> addedChemicals,
     experimentActions |-> experimentActions,
     currentObservation |-> currentObservation,
     currentExplanation |-> currentExplanation,
     showExplanation |-> showExplanation,
     experimentHeatLevel |-> experimentHeatLevel,
     experimentStirCount |-> experimentStirCount,
     isStirring |-> isStirring,
     completedExperiments |-> completedExperiments,
     storedCompleted |-> storedCompleted,
     saltTested |-> saltTested,
     sandTested |-> sandTested,
     resetAfterSaltTest |-> resetAfterSaltTest,
     showResetPrompt |-> showResetPrompt,
     resetPromptMessage |-> resetPromptMessage,
     showCompletionPopup |-> showCompletionPopup,
     iceTested |-> iceTested,
     paperTested |-> paperTested,
     magnesiumTested |-> magnesiumTested,
     neutralizationAnimating |-> neutralizationAnimating,
     neutralizationDropCount |-> neutralizationDropCount,
     neutralizationComplete |-> neutralizationComplete,
     activeEffects |-> activeEffects,
     reactionNotification |-> reactionNotification,
     timers |-> timers]

Vessel(type, capacity) ==
    [type |-> type, capacity |-> R(capacity), currentVolume |-> Zero, contents |-> <<>>]

\* the initial vessels of the store
InitialVessels ==
    [id \in {"beaker_1", "beaker_2", "tube_1", "tube_2", "tube_3", "tube_4", "flask_1"} |->
        CASE id \in {"beaker_1", "beaker_2"} -> Vessel("beaker", 500)
          [] id = "flask_1" -> Vessel("flask", 250)
          [] OTHER -> Vessel("test_tube", 50)]

\* new Map()
NoVessels == [id \in {} |-> Vessel("beaker", 0)]

Content(chemical, volume) == [chemical |-> chemical, volume |-> volume]

\* a pending setTimeout callback; `stale` is history: a resetExperiment happened
\* after it was scheduled
Timer(kind, vesselId, reaction) ==
    [kind |-> kind, vesselId |-> vesselId, reaction |-> reaction, stale |-> FALSE]

\* setTimeout(() => get().applyReaction(vesselId, reaction), 100) when a reaction occurred
ScheduleReaction(tm, vesselId, contents) ==
    IF checkReaction(contents) # NoReaction
    THEN Append(tm, Timer("applyReaction", vesselId, checkReaction(contents)))
    ELSE tm

(***************************************************************************)
(* Vessel handlers.                                                        *)
(***************************************************************************)
\* c.volume + actualVolumeAdded on the entry of the chemical, or a new last entry
MergeEntry(contents, chemical, amount) ==
    IF FindIndex(contents, chemical) > 0
    THEN [contents EXCEPT ![FindIndex(contents, chemical)].volume = RAdd(@, amount)]
    ELSE Append(contents, Content(chemical, amount))

\* a fill that forgets the capacity
NewVolumeUnclamped(vessel, volume) == RAdd(vessel.currentVolume, volume)

\* newVolume = Math.min(vessel.currentVolume + volume, vessel.capacity)
NewVolume(vessel, volume) == RMin(RAdd(vessel.currentVolume, volume), vessel.capacity)

fillVessel(s, vesselId, chemical, volume) ==
    IF vesselId \notin DOMAIN s.vessels THEN s
    ELSE LET vessel == s.vessels[vesselId]
             newVolume == NewVolume(vessel, volume)
             actualVolumeAdded == RSub(newVolume, vessel.currentVolume)
             newContents == MergeEntry(vessel.contents, chemical, actualVolumeAdded)
         IN IF RLe(actualVolumeAdded, Zero) THEN s
            ELSE [s EXCEPT
                    !.vessels = [@ EXCEPT ![vesselId] =
                                    [vessel EXCEPT !.currentVolume = newVolume,
                                                   !.contents = newContents]],
                    !.timers = ScheduleReaction(@, vesselId, newContents)]

clearVessel(s, vesselId) ==
    IF vesselId \notin DOMAIN s.vessels THEN s
    ELSE [s EXCEPT !.vessels = [@ EXCEPT ![vesselId] =
                                    [@ EXCEPT !.currentVolume = Zero, !.contents = <<>>]]]

\* remainingAmount > 0.01: the entries left in the source
RemainingContents(contents, transferRatio) ==
    SelectSeq([i \in 1..Len(contents) |->
                  [contents[i] EXCEPT !.volume = RSub(@, RMul(@, transferRatio))]],
              LAMBDA c : RLt(Eps, c.volume))

\* transferAmount > 0.01: the entries moved
TransferredContents(contents, transferRatio) ==
    SelectSeq([i \in 1..Len(contents) |->
                  [contents[i] EXCEPT !.volume = RMul(@, transferRatio)]],
              LAMBDA c : RLt(Eps, c.volume))

\* merge the transferred entries into the target's, by chemical id
RECURSIVE MergeContents(_, _)
MergeContents(targetContents, transferred) ==
    IF transferred = <<>> THEN targetContents
    ELSE MergeContents(MergeEntry(targetContents, transferred[1].chemical,
                                  transferred[1].volume),
                       Tail(transferred))

\* a pour that updates the source's entries and forgets its currentVolume
DrainedContentsOnly(source, actualTransfer, transferRatio) ==
    [source EXCEPT !.contents = RemainingContents(source.contents, transferRatio)]

\* the source after the pour
Drained(source, actualTransfer, transferRatio) ==
    [source EXCEPT !.currentVolume = RSub(source.currentVolume, actualTransfer),
                   !.contents = RemainingContents(source.contents, transferRatio)]

transferLiquid(s, sourceId, targetId, volume) ==
    IF sourceId \notin DOMAIN s.vessels \/ targetId \notin DOMAIN s.vessels THEN s
    ELSE LET source == s.vessels[sourceId]
             target == s.vessels[targetId]
             targetSpace == RSub(target.capacity, target.currentVolume)
             actualTransfer == RMin(RMin(volume, source.currentVolume), targetSpace)
         IN IF RLe(source.currentVolume, Zero) \/ RLe(actualTransfer, Zero) THEN s
            ELSE LET transferRatio == RDiv(actualTransfer, source.currentVolume)
                     newTargetContents ==
                         MergeContents(target.contents,
                                       TransferredContents(source.contents, transferRatio))
                     withSource ==
                         [s.vessels EXCEPT ![sourceId] =
                             Drained(source, actualTransfer, transferRatio)]
                     withTarget ==
                         [withSource EXCEPT ![targetId] =
                             [target EXCEPT
                                 !.currentVolume = RAdd(target.currentVolume, actualTransfer),
                                 !.contents = newTargetContents]]
                     tm == ScheduleReaction(s.timers, targetId, newTargetContents)
                 IN IF targetId = "collection_beaker"
                    THEN \* divert to the funnel buffer, keep the collection beaker as it was
                         [s EXCEPT
                            !.vessels = [withTarget EXCEPT ![targetId] = target],
                            !.experimentActions =
                                IF Includes(@, "pour") THEN @ ELSE Append(@, "pour"),
                            !.pendingFiltrationVolume = RAdd(@, actualTransfer),
                            !.timers = tm]
                    ELSE [s EXCEPT !.vessels = withTarget, !.timers = tm]

\* a release that adds to the collection beaker and leaves the buffer as it was
addFiltrateKeepsBuffer(s, volume) ==
    IF "collection_beaker" \notin DOMAIN s.vessels
       \/ RLe(s.pendingFiltrationVolume, Zero) THEN s
    ELSE [s EXCEPT !.vessels["collection_beaker"].currentVolume =
                       RAdd(@, RMin(volume, s.pendingFiltrationVolume))]

addFiltrate(s, volume) ==
    IF "collection_beaker" \notin DOMAIN s.vessels
       \/ RLe(s.pendingFiltrationVolume, Zero) THEN s
    ELSE LET beaker == s.vessels["collection_beaker"]
             finalVolume == RMin(volume, s.pendingFiltrationVolume)
         IN IF RLe(finalVolume, Zero) THEN s
            ELSE [s EXCEPT
                    !.vessels = [@ EXCEPT !["collection_beaker"] =
                                    [beaker EXCEPT
                                        !.currentVolume = RAdd(@, finalVolume),
                                        !.contents = MergeEntry(@, "water", finalVolume)]],
                    !.pendingFiltrationVolume = RSub(@, finalVolume)]

\* the vessel handed to addVessel by the shelf (createVessel / tongsVessel)
addVessel(s, vesselId, vessel) ==
    LET added == [id \in DOMAIN s.vessels \cup {vesselId} |->
                     IF id = vesselId THEN vessel ELSE s.vessels[id]]
    IN IF s.currentExperiment.id = "filtration" /\ vessel.type = "beaker"
       THEN [s EXCEPT
               !.vessels =
                   [id \in DOMAIN added \cup {"collection_beaker"} |->
                       IF id \in DOMAIN added THEN added[id]
                       ELSE Vessel("beaker", 250)],
               !.placedApparatus = IF Includes(@, "beaker") THEN @ ELSE Append(@, "beaker")]
       ELSE [s EXCEPT !.vessels = added]

\* every product given the whole volume of the vessel
ProductVolumeUnsplit(vessel, products) == vessel.currentVolume

\* vessel.currentVolume / reaction.products.length
ProductVolume(vessel, products) == RDiv(vessel.currentVolume, R(Len(products)))

applyReaction(s, vesselId, reaction) ==
    IF vesselId \notin DOMAIN s.vessels THEN s
    ELSE LET vessel == s.vessels[vesselId]
             products == REACTIONS[reaction].products
             effects == REACTIONS[reaction].effects
         IN [s EXCEPT
               !.vessels = [@ EXCEPT ![vesselId].contents =
                   [i \in 1..Len(products) |->
                       Content(products[i], ProductVolume(vessel, products))]],
               !.activeEffects = @ \o
                   [i \in 1..Len(effects) |->
                       [type |-> effects[i], vesselId |-> vesselId,
                        duration |-> IF effects[i] = "bubbles" THEN 4000 ELSE 3000]],
               !.reactionNotification = [reaction |-> reaction, vesselId |-> vesselId]]

(***************************************************************************)
(* Guided-experiment handlers.                                             *)
(***************************************************************************)
ObsAim(experiment) == <<"aim", experiment.id>>

ObsOutcome(key) == <<"observation">> \o key

ExplOutcome(key) == <<"explanation">> \o key

loadExperiment(s, experimentId) ==
    IF getExperimentById(experimentId) = NoExperiment THEN s
    ELSE [s EXCEPT
            !.currentExperiment = getExperimentById(experimentId),
            !.vessels = NoVessels,
            !.placedApparatus = <<>>,
            !.addedChemicals = <<>>,
            !.experimentActions = <<>>,
            !.currentObservation = ObsAim(getExperimentById(experimentId)),
            !.currentExplanation = <<>>,
            !.showExplanation = FALSE,
            !.experimentHeatLevel = 0,
            !.experimentStirCount = 0]

addApparatusToExperiment(s, apparatusId) ==
    IF Includes(s.placedApparatus, apparatusId) THEN s
    ELSE [s EXCEPT !.placedApparatus = Append(@, apparatusId),
                   !.currentObservation = <<"added-apparatus", apparatusId>>]

addChemicalToExperiment(s, chemicalId) ==
    IF Includes(s.addedChemicals, chemicalId) THEN s
    ELSE [s EXCEPT !.addedChemicals = Append(@, chemicalId),
                   !.currentObservation = <<"added-chemical", chemicalId>>]

\* Math.min(100, level + 30)
HeatStep(level) == IF level + 30 < 100 THEN level + 30 ELSE 100

\* an action list that is never consulted
NeverPerformed(s, action) == FALSE

\* state.experimentActions.includes(action)
AlreadyPerformed(s, action) == Includes(s.experimentActions, action)

performExperimentAction(s, action) ==
    IF AlreadyPerformed(s, action) THEN s
    ELSE LET withAction == [s EXCEPT !.experimentActions = Append(@, action)]
         IN CASE action = "heat" ->
                   [withAction EXCEPT
                       !.experimentHeatLevel = HeatStep(@),
                       !.timers = IF s.currentExperiment.id = "evaporation"
                                  THEN Append(@, Timer("autoEvaporate", "", NoReaction))
                                  ELSE @]
              [] action = "stir" ->
                   [withAction EXCEPT
                       !.experimentStirCount = @ + 1,
                       !.isStirring = TRUE,
                       !.timers = Append(@, Timer("stirDone", "", NoReaction))]
              [] OTHER -> withAction

toggleBunsenBurner(s) ==
    IF ~s.bunsenBurnerOn
    THEN [s EXCEPT !.bunsenBurnerOn = TRUE,
                   !.experimentActions = IF Includes(@, "heat") THEN @ ELSE Append(@, "heat")]
    ELSE [s EXCEPT !.bunsenBurnerOn = FALSE]

\* chemicals + each individual action, in as-added and in sorted order
RECURSIVE SingleActionKeys(_, _)
SingleActionKeys(chemicals, actions) ==
    IF actions = <<>> THEN <<>>
    ELSE << chemicals \o <<actions[1]>>, Sort(chemicals) \o <<actions[1]>> >>
         \o SingleActionKeys(chemicals, Tail(actions))

\* the candidate keys, least specific first
generateKeysLeastSpecificFirst(chemicals, actions) ==
    (IF Len(chemicals) > 0 THEN << chemicals, Sort(chemicals) >> ELSE <<>>)
    \o SingleActionKeys(chemicals, actions)
    \o (IF Len(actions) > 0
        THEN << chemicals \o actions, Sort(chemicals) \o Sort(actions) >>
        ELSE <<>>)

\* the candidate keys, most specific first
generateKeys(chemicals, actions) ==
    (IF Len(actions) > 0
     THEN << chemicals \o actions, Sort(chemicals) \o Sort(actions) >>
     ELSE <<>>)
    \o SingleActionKeys(chemicals, actions)
    \o (IF Len(chemicals) > 0 THEN << chemicals, Sort(chemicals) >> ELSE <<>>)

\* state.currentExperiment.reactions[key] is defined
Defines(reactions, key) == \E i \in 1..Len(reactions) : reactions[i].key = key

Lookup(reactions, key) ==
    reactions[CHOOSE i \in 1..Len(reactions) : reactions[i].key = key]

\* the defined keys, in table order, all of whose chemical tokens and action
\* tokens are present
SupersetMatches(reactions, chemicals, actions) ==
    SelectSeq(reactions,
              LAMBDA r : \A i \in 1..Len(r.key) :
                            IF r.key[i] \in ActionVocabulary
                            THEN Includes(actions, r.key[i])
                            ELSE Includes(chemicals, r.key[i]))

\* no outcome matched (matchedReaction null)
NoKey == <<>>

\* the key whose outcome checkExperimentReaction applies
MatchedKey(reactions, chemicals, actions) ==
    LET exact == SelectSeq(generateKeys(chemicals, actions),
                           LAMBDA k : Defines(reactions, k))
        superset == SupersetMatches(reactions, chemicals, actions)
    IN IF exact # <<>> THEN exact[1]
       ELSE IF superset # <<>> THEN superset[1].key
       ELSE NoKey

\* matchedKey.includes(sub) for sub in {'salt', 'sand', 'stir'}: sub holds no '+',
\* so it occurs in the key iff it occurs in one token
TokenContains(token, sub) ==
    \/ token = sub
    \/ (sub = "salt" /\ token = "salt-solution")

KeyIncludes(key, sub) == \E i \in 1..Len(key) : TokenContains(key[i], sub)

\* the completion popup is delayed by 3 seconds
SchedulePopup(tm) == Append(tm, Timer("completionPopup", "", NoReaction))

\* vessel.contents.find(c => c.chemical.id === id) exists
Holds(vessel, id) == FindIndex(vessel.contents, id) > 0

\* ice + heat: the ice of every vessel becomes 40% of its volume of water
MeltIce(vs) ==
    [id \in DOMAIN vs |->
        IF Holds(vs[id], "ice")
        THEN LET waterVolume ==
                     RMul(vs[id].contents[FindIndex(vs[id].contents, "ice")].volume, <<2, 5>>)
             IN [vs[id] EXCEPT !.contents = <<Content("water", waterVolume)>>,
                                !.currentVolume = waterVolume]
        ELSE vs[id]]

\* paper / magnesium + heat: what the tongs hold becomes one unit of the product
Burn(vs, id0, product) ==
    [id \in DOMAIN vs |->
        IF vs[id].type = "tongs" /\ Holds(vs[id], id0)
        THEN [vs[id] EXCEPT !.contents = <<Content(product, R(1))>>]
        ELSE vs[id]]

checkSaltDissolution(s, matchedKey) ==
    LET saltPhase == KeyIncludes(matchedKey, "salt") /\ KeyIncludes(matchedKey, "stir")
                     /\ ~s.saltTested
        sandPhase == ~saltPhase /\ KeyIncludes(matchedKey, "sand")
                     /\ KeyIncludes(matchedKey, "stir") /\ ~s.sandTested
        newSaltTested == s.saltTested \/ saltPhase
        newSandTested == s.sandTested \/ sandPhase
        experimentId == s.currentExperiment.id
    IN IF newSaltTested /\ newSandTested /\ ~Includes(s.completedExperiments, experimentId)
       THEN [s EXCEPT
               !.currentObservation = <<"experiment-complete">>,
               !.currentExplanation = <<"conclusion", experimentId>>,
               !.showExplanation = TRUE,
               !.saltTested = newSaltTested,
               !.sandTested = newSandTested,
               !.showResetPrompt = FALSE,
               !.resetPromptMessage = "",
               !.completedExperiments = Append(@, experimentId),
               !.storedCompleted = Append(s.completedExperiments, experimentId),
               !.timers = SchedulePopup(@)]
       ELSE [s EXCEPT
               !.currentObservation = ObsOutcome(matchedKey),
               !.currentExplanation = ExplOutcome(matchedKey),
               !.showExplanation = TRUE,
               !.saltTested = newSaltTested,
               !.sandTested = newSandTested,
               !.showResetPrompt = saltPhase /\ ~(newSaltTested /\ newSandTested),
               !.resetPromptMessage =
                   IF saltPhase THEN "salt-test-complete" ELSE ""]

checkPhysicalChemical(s, matchedKey) ==
    LET shown == [s EXCEPT !.currentObservation = ObsOutcome(matchedKey),
                           !.currentExplanation = ExplOutcome(matchedKey),
                           !.showExplanation = TRUE]
        experimentId == s.currentExperiment.id
    IN CASE matchedKey = <<"ice", "heat">> ->
              [shown EXCEPT !.vessels = MeltIce(@),
                            !.showResetPrompt = TRUE,
                            !.resetPromptMessage = "ice-melted",
                            !.iceTested = TRUE]
         [] matchedKey = <<"paper", "heat">> ->
              [shown EXCEPT !.vessels = Burn(@, "paper", "ash"),
                            !.showResetPrompt = TRUE,
                            !.resetPromptMessage = "paper-burnt",
                            !.paperTested = TRUE,
                            !.bunsenBurnerOn = FALSE]
         [] matchedKey = <<"magnesium", "heat">> ->
              IF ~Includes(s.completedExperiments, experimentId)
              THEN [shown EXCEPT !.vessels = Burn(@, "magnesium", "magnesium-oxide"),
                                 !.completedExperiments = Append(@, experimentId),
                                 !.storedCompleted = Append(s.completedExperiments, experimentId),
                                 !.magnesiumTested = TRUE,
                                 !.bunsenBurnerOn = FALSE,
                                 !.timers = SchedulePopup(@)]
              ELSE [shown EXCEPT !.vessels = Burn(@, "magnesium", "magnesium-oxide"),
                                 !.magnesiumTested = TRUE,
                                 !.bunsenBurnerOn = FALSE]
         [] OTHER ->
              [shown EXCEPT !.showResetPrompt = FALSE, !.resetPromptMessage = ""]

\* what checkExperimentReaction does once matchedKey is the key it matched
applyMatched(s, matchedKey) ==
    LET reactions == s.currentExperiment.reactions
        experimentId == s.currentExperiment.id
    IN IF experimentId = "salt-dissolution" /\ Lookup(reactions, matchedKey).success
       THEN checkSaltDissolution(s, matchedKey)
       ELSE IF experimentId = "physical-chemical"
       THEN checkPhysicalChemical(s, matchedKey)
       ELSE IF Lookup(reactions, matchedKey).success
               /\ ~Includes(s.completedExperiments, experimentId)
       THEN [s EXCEPT
               !.currentObservation = ObsOutcome(matchedKey),
               !.currentExplanation = ExplOutcome(matchedKey),
               !.showExplanation = TRUE,
               !.completedExperiments = Append(@, experimentId),
               !.storedCompleted = Append(s.completedExperiments, experimentId),
               !.timers = SchedulePopup(@)]
       \* every outcome of the data has a non-empty explanation
       ELSE [s EXCEPT
               !.currentObservation = ObsOutcome(matchedKey),
               !.currentExplanation = ExplOutcome(matchedKey),
               !.showExplanation = TRUE]

checkExperimentReaction(s) ==
    IF s.currentExperiment = NoExperiment THEN s
    ELSE LET matchedKey == MatchedKey(s.currentExperiment.reactions,
                                      s.addedChemicals, s.experimentActions)
         IN IF matchedKey = NoKey THEN s ELSE applyMatched(s, matchedKey)

\* a reset that leaves the resumed flag as it finds it
resetAfterSaltTestKept(s) == s.resetAfterSaltTest

\* let newResetAfterSaltTest: the resumed flag after a reset
newResetAfterSaltTest(s) ==
    LET id == s.currentExperiment.id
    IN IF id = "salt-dissolution" /\ s.saltTested /\ ~s.sandTested THEN TRUE
       ELSE IF id = "salt-dissolution" /\ s.saltTested /\ s.sandTested THEN FALSE
       ELSE s.resetAfterSaltTest

\* a reset that leaves the ice flag as it finds it
iceTestedKept(s) == s.iceTested

\* let newIceTested: the ice flag after a reset
newIceTested(s) ==
    IF /\ s.currentExperiment.id = "physical-chemical"
       /\ s.iceTested /\ s.paperTested /\ s.magnesiumTested
    THEN FALSE
    ELSE s.iceTested

(***************************************************************************)
(* The drop-counted titration.                                             *)
(***************************************************************************)
\* the drop that completes the titration (ChinaDish: TOTAL_DROPS)
TotalDrops == 5

startNeutralizationAnimation(s) ==
    [s EXCEPT !.neutralizationAnimating = TRUE,
              !.neutralizationDropCount = 0,
              !.showResetPrompt = FALSE]

\* addedChemicals.filter(c => c !== 'hcl')
WithoutHcl(chemicals) == SelectSeq(chemicals, LAMBDA c : c # "hcl")

completeNeutralization(s) ==
    checkExperimentReaction(
        [s EXCEPT !.neutralizationAnimating = FALSE,
                  !.neutralizationComplete = TRUE,
                  !.addedChemicals = Append(WithoutHcl(@), "hcl")])

incrementNeutralizationDrops(s) ==
    LET newCount == s.neutralizationDropCount + 1
        counted == [s EXCEPT !.neutralizationDropCount = newCount]
    IN IF newCount >= TotalDrops THEN completeNeutralization(counted) ELSE counted

\* 0.08 of the way to the end colour per drop
DropFade == <<2, 25>>

\* a fade that goes on drop by drop
displayProgressLinear(count) == RMul(R(count), DropFade)

\* Beaker.liquidColor: how far the pink is interpolated towards colourless
displayProgress(count) ==
    IF count >= TotalDrops THEN R(1) ELSE RMul(R(count), DropFade)

\* `stale` marks the callbacks of the attempt that ends here (history only: the
\* code keeps no handle of its timers and cancels none)
resetExperiment(s) ==
    IF s.currentExperiment = NoExperiment THEN s
    ELSE LET id == s.currentExperiment.id
             bothTested == s.saltTested /\ s.sandTested
             allThree == s.iceTested /\ s.paperTested /\ s.magnesiumTested
         IN [s EXCEPT
               !.vessels = NoVessels,
               !.placedApparatus = <<>>,
               !.addedChemicals = <<>>,
               !.experimentActions = <<>>,
               !.currentObservation =
                   IF id = "salt-dissolution" /\ s.saltTested /\ ~s.sandTested
                   THEN <<"now-test-sand">>
                   ELSE IF id = "physical-chemical" /\ s.iceTested /\ ~s.paperTested
                   THEN <<"round-2-paper">>
                   ELSE IF id = "physical-chemical" /\ s.iceTested /\ s.paperTested
                           /\ ~s.magnesiumTested
                   THEN <<"round-3-magnesium">>
                   ELSE ObsAim(s.currentExperiment),
               !.currentExplanation = <<>>,
               !.showExplanation = FALSE,
               !.experimentHeatLevel = 0,
               !.experimentStirCount = 0,
               !.isStirring = FALSE,
               !.resetAfterSaltTest = newResetAfterSaltTest(s),
               !.saltTested = IF bothTested THEN FALSE ELSE @,
               !.sandTested = IF bothTested THEN FALSE ELSE @,
               !.iceTested = newIceTested(s),
               !.paperTested = IF id = "physical-chemical" /\ allThree THEN FALSE ELSE @,
               !.magnesiumTested = IF id = "physical-chemical" /\ allThree THEN FALSE ELSE @,
               !.showResetPrompt = FALSE,
               !.resetPromptMessage = "",
               !.showCompletionPopup = FALSE,
               !.bunsenBurnerOn = FALSE,
               !.timers = [i \in 1..Len(@) |-> [@[i] EXCEPT !.stale = TRUE]]]

\* an insertion that does not look at the list first
markExperimentCompleteUnchecked(s, experimentId) ==
    [s EXCEPT !.completedExperiments = Append(@, experimentId),
              !.storedCompleted = Append(s.completedExperiments, experimentId)]

markExperimentComplete(s, experimentId) ==
    IF Includes(s.completedExperiments, experimentId) THEN s
    ELSE [s EXCEPT !.completedExperiments = Append(@, experimentId),
                   !.storedCompleted = Append(s.completedExperiments, experimentId)]

goToHomeScreen(s) ==
    [s EXCEPT !.currentExperiment = NoExperiment,
              !.placedApparatus = <<>>,
              !.addedChemicals = <<>>,
              !.experimentActions = <<>>,
              !.currentObservation = <<"welcome">>,
              !.currentExplanation = <<>>,
              !.showExplanation = FALSE,
              !.experimentHeatLevel = 0,
              !.experimentStirCount = 0]

(***************************************************************************)
(* FilterFunnel.useFrame: one rendered frame of the funnel.                *)
(***************************************************************************)
\* pendingVolume > 0.1: the funnel is filtering
DrainThreshold == <<1, 10>>

\* totalSourceVolume < 5: the source beakers are essentially empty
NearEmpty == R(5)

RECURSIVE VolumeOfAll(_, _)
VolumeOfAll(vs, ids) ==
    IF ids = {} THEN Zero
    ELSE LET id == CHOOSE x \in ids : TRUE
         IN RAdd(vs[id].currentVolume, VolumeOfAll(vs, ids \ {id}))

\* the volume of the beakers other than the collection beaker
totalSourceVolume(vs) ==
    VolumeOfAll(vs, { id \in DOMAIN vs :
                        vs[id].type = "beaker" /\ id # "collection_beaker" })

\* a completion edge that never looks at the source beakers
SourceAlwaysEmpty(vs) == TRUE

\* if (totalSourceVolume < 5)
SourceEssentiallyEmpty(vs) == RLt(totalSourceVolume(vs), NearEmpty)

\* the store after the frame; transferAmount is effectiveRate * delta
useFrame(s, wasFiltering, transferAmount) ==
    IF RLt(DrainThreshold, s.pendingFiltrationVolume)
    THEN addFiltrate(s, transferAmount)
    ELSE IF wasFiltering /\ SourceEssentiallyEmpty(s.vessels)
    THEN checkExperimentReaction(performExperimentAction(s, "filter"))
    ELSE s

\* wasFilteringRef.current after the frame
useFrameRef(s, wasFiltering) == RLt(DrainThreshold, s.pendingFiltrationVolume)

(***************************************************************************)
(* One-shot callbacks.  A callback fires once its delay has passed: one    *)
(* scheduled later fires first only if its delay is shorter.               *)
(***************************************************************************)
TimerDelay(kind) ==
    CASE kind = "applyReaction" -> 100
      [] kind = "completionPopup" -> 3000
      [] kind = "stirDone" -> 4000
      [] kind = "autoEvaporate" -> 5000

CanFire(tm, i) ==
    \A j \in 1..(i - 1) : TimerDelay(tm[j].kind) > TimerDelay(tm[i].kind)

NoTimer == Timer("none", "", NoReaction)

\* the body of the i-th pending callback
fireTimer(s, i) ==
    LET t == s.timers[i]
        s0 == [s EXCEPT !.timers = SubSeq(@, 1, i - 1) \o SubSeq(@, i + 1, Len(@))]
    IN CASE t.kind = "applyReaction" -> applyReaction(s0, t.vesselId, t.reaction)
         [] t.kind = "stirDone" ->
              checkExperimentReaction([s0 EXCEPT !.isStirring = FALSE])
         [] t.kind = "autoEvaporate" ->
              checkExperimentReaction(performExperimentAction(s0, "evaporate"))
         [] t.kind = "completionPopup" -> [s0 EXCEPT !.showCompletionPopup = TRUE]

(***************************************************************************)
(* HeatingSystem: the temperatures of the vessels near the burner.         *)
(***************************************************************************)
\* createVessel: every vessel starts at 25 degrees
Ambient == R(25)

\* Math.min(120, ...)
TemperatureCap == R(120)

\* vessel.temperature >= 100
BoilingPoint == R(100)

\* the radius of the heating zone around [0, 0, 2]
heatingDistance == <<7, 10>>

\* degrees per second lost with the burner off, and with the burner on away
\* from it
CoolingRateOff == R(5)

CoolingRateAway == R(3)

RMax(a, b) == IF RLe(a, b) THEN b ELSE a

\* 15 * (1 - distance / heatingDistance)
heatingRate(distance) == RMul(R(15), RSub(R(1), RDiv(distance, heatingDistance)))

\* a heating step without the cap
heatedUncapped(temp, distance, delta) == RAdd(temp, RMul(delta, heatingRate(distance)))

heatedTemperature(temp, distance, delta) ==
    RMin(TemperatureCap, RAdd(temp, RMul(delta, heatingRate(distance))))

\* if (vessel.temperature > 25) newTemp = Math.max(25, temperature - delta * rate)
cooledTemperature(temp, rate, delta) ==
    IF RLt(Ambient, temp) THEN RMax(Ambient, RSub(temp, RMul(delta, rate))) ELSE temp

\* the temperature one frame of delta seconds gives a vessel at the distance
frameTemperature(burnerOn, temp, distance, delta) ==
    IF ~burnerOn THEN cooledTemperature(temp, CoolingRateOff, delta)
    ELSE IF RLt(distance, heatingDistance) THEN heatedTemperature(temp, distance, delta)
    ELSE cooledTemperature(temp, CoolingRateAway, delta)

hasIce(vessel) == \E i \in 1..Len(vessel.contents) : vessel.contents[i].chemical = "ice"

hasBoilingEffect(effects, vesselId) ==
    \E i \in 1..Len(effects) :
        /\ effects[i].vesselId = vesselId
        /\ effects[i].type \in {"boiling", "steam"}

\* the vessel passes every test of the frame but the one on lastBoilTime; the
\* temperature read is the one before the frame's update
canBoil(s, temps, dists, vesselId) ==
    /\ vesselId \in DOMAIN s.vessels
    /\ s.bunsenBurnerOn
    /\ RLt(dists[vesselId], heatingDistance)
    /\ RLe(BoilingPoint, temps[vesselId])
    /\ RLt(Zero, s.vessels[vesselId].currentVolume)
    /\ ~hasIce(s.vessels[vesselId])
    /\ ~hasBoilingEffect(s.activeEffects, vesselId)

BoilingEffects(vesselId) ==
    << [type |-> "boiling", vesselId |-> vesselId, duration |-> 5000],
       [type |-> "steam", vesselId |-> vesselId, duration |-> 5000] >>

(***************************************************************************)
(* Bounds of the model and the inputs the commands are tried with.         *)
(***************************************************************************)
\* volume-changing commands per run of the sandbox specification
MaxVolumeOps == 3

\* volume-changing commands per run of the filtration specification
MaxFiltrationOps == 5

\* callbacks pending at once
MaxTimers == 1

\* actions performed per attempt in the engine specification
MaxActions == 2

\* the vessels filled and cleared; beaker_9 is the id of no vessel
SandboxVesselIds == {"beaker_1", "flask_1", "tube_1", "beaker_9"}

\* the vessels poured between: with capacities 250 and 50 every volume reached
\* within the bounds has a numerator and a denominator that fit 32 bits
PourVesselIds == {"flask_1", "tube_1", "beaker_9"}

SandboxChemicals == {"water", "hydrochloric_acid", "sodium_hydroxide"}

FillVolumes == {Eps, R(30), R(1000)}

PourVolumes == {R(20), R(50)}

\* the beaker the shelf creates (createVessel: capacity 250)
ShelfBeakerId == "beaker_a"

FiltrationVesselIds == {ShelfBeakerId, "collection_beaker"}

\* the vessels whose temperature and place are followed: a beaker of the
\* sandbox bench and the beaker the shelf creates, in the order of the map
HeatedOrder == <<"beaker_1", ShelfBeakerId>>

HeatedIds == {HeatedOrder[i] : i \in 1..Len(HeatedOrder)}

\* beaker_1 starts at [-1.2, 0, 0], at 2.4 (rounded up) from the burner at
\* [0, 0, 2]; the shelf's beaker starts near [0.25, 0, 0.75], at 1.3
InitialDistance(id) == IF id = "beaker_1" THEN <<12, 5>> ELSE <<13, 10>>

\* where a drag releases a vessel, as a distance from the burner
DragDistances == {<<1, 2>>, <<6, 5>>}

\* seconds between two frames
HeatDeltas == {R(1), R(5)}

\* frames of the heating system per run
MaxHeatFrames == 3

\* the shelf adds 112.5 of muddy water per click; 1000 stands for any excess
MuddyVolumes == {<<225, 2>>, R(1000)}

FunnelPourVolumes == {R(50), R(1000)}

\* 12 ml/s at 60 frames per second, and a release of everything pending
FiltrateVolumes == {<<1, 5>>, R(1000)}

EngineExperiments == {"evaporation", "filtration"}

EngineApparatus == {"beaker"}

\* keys per hypothetical outcome table of the matcher specification
MaxTableKeys == 2

\* the keys of the signature-ranking scenario: the chemicals alone, the chemicals
\* with the action, and one chemical alone
MatchKeys ==
    { Outcome(<<"naoh", "phenolphthalein">>, FALSE),
      Outcome(<<"naoh", "phenolphthalein", "heat">>, TRUE),
      Outcome(<<"naoh">>, FALSE) }

\* the tables of at most MaxTableKeys distinct keys, in every insertion order
MatchTables ==
    UNION { { t \in [1..n -> MatchKeys] : \A i, j \in 1..n : i # j => t[i] # t[j] }
            : n \in 1..MaxTableKeys }

MatchExperiments ==
    { [id |-> "neutralization", chemicals |-> <<"naoh", "phenolphthalein">>,
       reactions |-> t] : t \in MatchTables }

(***************************************************************************)
(* Actions: a command (or a callback) applied to the store.  The pouring   *)
(* system never pours a vessel into itself (PouringSystem skips            *)
(* target.id === source.id), so the pours are tried between distinct ids.  *)
(***************************************************************************)
\* the store becomes s2, the funnel's ref becomes ref, the heated vessels get
\* the temperatures temps and the positions at the distances dists
CommitHeated(s2, ref, temps, dists, op, args, timer, volumeOp) ==
    /\ Len(s2.timers) <= MaxTimers
    /\ wasFilteringRef' = ref
    /\ temperature' = temps
    /\ burnerDistance' = dists
    /\ neutralizationAnimating' = s2.neutralizationAnimating
    /\ neutralizationDropCount' = s2.neutralizationDropCount
    /\ neutralizationComplete' = s2.neutralizationComplete
    /\ vessels' = s2.vessels
    /\ pendingFiltrationVolume' = s2.pendingFiltrationVolume
    /\ bunsenBurnerOn' = s2.bunsenBurnerOn
    /\ currentExperiment' = s2.currentExperiment
    /\ placedApparatus' = s2.placedApparatus
    /\ addedChemicals' = s2.addedChemicals
    /\ experimentActions' = s2.experimentActions
    /\ currentObservation' = s2.currentObservation
    /\ currentExplanation' = s2.currentExplanation
    /\ showExplanation' = s2.showExplanation
    /\ experimentHeatLevel' = s2.experimentHeatLevel
    /\ experimentStirCount' = s2.experimentStirCount
    /\ isStirring' = s2.isStirring
    /\ completedExperiments' = s2.completedExperiments
    /\ storedCompleted' = s2.storedCompleted
    /\ saltTested' = s2.saltTested
    /\ sandTested' = s2.sandTested
    /\ resetAfterSaltTest' = s2.resetAfterSaltTest
    /\ showResetPrompt' = s2.showResetPrompt
    /\ resetPromptMessage' = s2.resetPromptMessage
    /\ showCompletionPopup' = s2.showCompletionPopup
    /\ iceTested' = s2.iceTested
    /\ paperTested' = s2.paperTested
    /\ magnesiumTested' = s2.magnesiumTested
    /\ activeEffects' = s2.activeEffects
    /\ reactionNotification' = s2.reactionNotification
    /\ timers' = s2.timers
    /\ volumeOps' = volumeOps + volumeOp
    /\ last' = [op |-> op, args |-> args, timer |-> timer,
                repeated |-> (last.op = op /\ last.args = args)]

\* a step that neither heats nor moves a vessel
CommitWithRef(s2, ref, op, args, timer, volumeOp) ==
    CommitHeated(s2, ref, temperature, burnerDistance, op, args, timer, volumeOp)

\* a store command: the funnel's ref is the component's own
Commit(s2, op, args, timer, volumeOp) ==
    CommitWithRef(s2, wasFilteringRef, op, args, timer, volumeOp)

Init ==
    /\ vessels = InitialVessels
    /\ pendingFiltrationVolume = Zero
    /\ bunsenBurnerOn = FALSE
    /\ currentExperiment = NoExperiment
    /\ placedApparatus = <<>>
    /\ addedChemicals = <<>>
    /\ experimentActions = <<>>
    /\ currentObservation = <<"welcome">>
    /\ currentExplanation = <<>>
    /\ showExplanation = FALSE
    /\ experimentHeatLevel = 0
    /\ experimentStirCount = 0
    /\ isStirring = FALSE
    /\ completedExperiments = <<>>
    /\ storedCompleted = <<>>
    /\ saltTested = FALSE
    /\ sandTested = FALSE
    /\ resetAfterSaltTest = FALSE
    /\ showResetPrompt = FALSE
    /\ resetPromptMessage = ""
    /\ showCompletionPopup = FALSE
    /\ iceTested = FALSE
    /\ paperTested = FALSE
    /\ magnesiumTested = FALSE
    /\ neutralizationAnimating = FALSE
    /\ neutralizationDropCount = 0
    /\ neutralizationComplete = FALSE
    /\ wasFilteringRef = FALSE
    /\ temperature = [id \in HeatedIds |-> Ambient]
    /\ burnerDistance = [id \in HeatedIds |-> InitialDistance(id)]
    /\ activeEffects = <<>>
    /\ reactionNotification = [reaction |-> NoReaction, vesselId |-> ""]
    /\ volumeOps = 0
    /\ timers = <<>>
    /\ last = [op |-> "init", args |-> <<>>, timer |-> NoTimer, repeated |-> FALSE]

FillVessel ==
    /\ volumeOps < MaxVolumeOps
    /\ \E v \in SandboxVesselIds, c \in SandboxChemicals, x \in FillVolumes :
          Commit(fillVessel(Store, v, c, x), "fillVessel", <<v, c, x>>, NoTimer, 1)

TransferLiquid ==
    /\ volumeOps < MaxVolumeOps
    /\ \E a \in PourVesselIds : \E b \in PourVesselIds \ {a}, x \in PourVolumes :
          Commit(transferLiquid(Store, a, b, x), "transferLiquid", <<a, b, x>>, NoTimer, 1)

ClearVessel ==
    /\ volumeOps < MaxVolumeOps
    /\ \E v \in SandboxVesselIds :
          Commit(clearVessel(Store, v), "clearVessel", <<v>>, NoTimer, 1)

FireTimer ==
    \E i \in 1..Len(timers) :
        /\ CanFire(timers, i)
        /\ \E s2 \in {fireTimer(Store, i)} :
              Commit(s2, "timer", <<>>, timers[i], 0)

\* the sandbox: fills, pours, clears and deferred reactions on the initial vessels
NextVessel == FillVessel \/ TransferLiquid \/ ClearVessel \/ FireTimer

SpecVessel == Init /\ [][NextVessel]_vars

LoadFiltration ==
    Commit(loadExperiment(Store, "filtration"), "loadExperiment", <<"filtration">>, NoTimer, 0)

PlaceBeaker ==
    Commit(addVessel(Store, ShelfBeakerId, Vessel("beaker", 250)),
           "addVessel", <<ShelfBeakerId>>, NoTimer, 0)

FillSource ==
    /\ volumeOps < MaxFiltrationOps
    /\ \E x \in MuddyVolumes :
          Commit(fillVessel(Store, ShelfBeakerId, "muddy-water", x),
                 "fillVessel", <<ShelfBeakerId, "muddy-water", x>>, NoTimer, 1)

Pour ==
    /\ volumeOps < MaxFiltrationOps
    /\ \E a \in FiltrationVesselIds : \E b \in FiltrationVesselIds \ {a}, x \in FunnelPourVolumes :
          Commit(transferLiquid(Store, a, b, x), "transferLiquid", <<a, b, x>>, NoTimer, 1)

AddFiltrate ==
    /\ volumeOps < MaxFiltrationOps
    /\ \E x \in FiltrateVolumes :
          Commit(addFiltrate(Store, x), "addFiltrate", <<x>>, NoTimer, 1)

\* the filtration bench: a shelf beaker poured through the funnel into the
\* collection beaker
NextFiltration == LoadFiltration \/ PlaceBeaker \/ FillSource \/ Pour \/ AddFiltrate

SpecFiltration == Init /\ [][NextFiltration]_vars

LoadExperiment ==
    \E e \in EngineExperiments :
        Commit(loadExperiment(Store, e), "loadExperiment", <<e>>, NoTimer, 0)

AddApparatus ==
    \E a \in EngineApparatus :
        Commit(addApparatusToExperiment(Store, a), "addApparatusToExperiment", <<a>>,
               NoTimer, 0)

\* the shelf offers the chemicals of the loaded experiment
AddChemical ==
    \E c \in Range(currentExperiment.chemicals) :
        Commit(addChemicalToExperiment(Store, c), "addChemicalToExperiment", <<c>>,
               NoTimer, 0)

PerformAction ==
    \E a \in ActionVocabulary :
        /\ Len(experimentActions) < MaxActions \/ Includes(experimentActions, a)
        /\ Commit(performExperimentAction(Store, a), "performExperimentAction", <<a>>,
                  NoTimer, 0)

CheckReaction ==
    Commit(checkExperimentReaction(Store), "checkExperimentReaction", <<>>, NoTimer, 0)

ResetExperiment ==
    Commit(resetExperiment(Store), "resetExperiment", <<>>, NoTimer, 0)

\* the guided experiments: load, set up, act, check, reset, and the callbacks
NextEngine ==
    \/ LoadExperiment
    \/ AddApparatus
    \/ AddChemical
    \/ PerformAction
    \/ CheckReaction
    \/ ResetExperiment
    \/ FireTimer

SpecEngine == Init /\ [][NextEngine]_vars

\* setting up the bench: load, place, add, act, and the callbacks of the actions
NextSetup == LoadExperiment \/ AddApparatus \/ AddChemical \/ PerformAction \/ FireTimer

SpecSetup == Init /\ [][NextSetup]_vars

\* the experiments run in phases
PhaseExperiments == {"salt-dissolution", "physical-chemical"}

\* the apparatus the shelf's rules for the phased experiments ask for
PhaseApparatus == {"beaker", "tongs"}

\* the actions the outcome table of an experiment names
TableActions(experiment) ==
    { a \in ActionVocabulary :
        \E i \in 1..Len(experiment.reactions) :
            Includes(experiment.reactions[i].key, a) }

\* ChemicalShelf: the button of chemId is greyed out (guided mode)
isChemicalDisabledForSaltDissolution(s, chemId) ==
    LET hasWater == Includes(s.addedChemicals, "water")
        hasSaltOrSand == Includes(s.addedChemicals, "salt")
                         \/ Includes(s.addedChemicals, "sand")
    IN IF s.currentExperiment.id # "salt-dissolution" THEN FALSE
       ELSE CASE chemId = "water" -> FALSE
              [] chemId = "salt" -> ~hasWater \/ s.saltTested \/ hasSaltOrSand
              [] chemId = "sand" -> \/ ~hasWater
                                    \/ ~s.saltTested
                                    \/ s.sandTested
                                    \/ ~s.resetAfterSaltTest
                                    \/ hasSaltOrSand
              [] OTHER -> FALSE

\* a shelf that greys out no chemical of the three-phase experiment
isChemicalNeverDisabled(s, chemId) == FALSE

\* a gate that looks at the phase flags and the tongs but not at the session
isChemicalDisabledIgnoringSession(s, chemId) ==
    IF s.currentExperiment.id # "physical-chemical" THEN FALSE
    ELSE CASE chemId = "ice" -> s.iceTested \/ ~Includes(s.placedApparatus, "beaker")
           [] chemId = "paper" -> \/ ~s.iceTested \/ s.paperTested
                                  \/ ~Includes(s.placedApparatus, "tongs")
           [] chemId = "magnesium" -> \/ ~s.iceTested \/ ~s.paperTested
                                      \/ s.magnesiumTested
                                      \/ ~Includes(s.placedApparatus, "tongs")
           [] OTHER -> FALSE

isChemicalDisabledForPhysicalChemical(s, chemId) ==
    LET hasBeaker == Includes(s.placedApparatus, "beaker")
        hasTongs == Includes(s.placedApparatus, "tongs")
        hasIceInSession == Includes(s.addedChemicals, "ice")
        hasPaperInSession == Includes(s.addedChemicals, "paper")
        hasMagnesiumInSession == Includes(s.addedChemicals, "magnesium")
    IN IF s.currentExperiment.id # "physical-chemical" THEN FALSE
       ELSE CASE chemId = "ice" -> s.iceTested \/ ~hasBeaker \/ hasIceInSession
              [] chemId = "paper" -> \/ ~s.iceTested
                                     \/ s.paperTested
                                     \/ hasIceInSession
                                     \/ ~hasTongs
                                     \/ hasPaperInSession
              [] chemId = "magnesium" -> \/ ~s.iceTested \/ ~s.paperTested
                                         \/ s.magnesiumTested
                                         \/ hasPaperInSession
                                         \/ ~hasTongs
                                         \/ hasMagnesiumInSession
              [] OTHER -> FALSE

\* the chemical buttons the shelf leaves enabled
ShelfEnabled(s) ==
    { c \in Range(s.currentExperiment.chemicals) :
        /\ ~isChemicalDisabledForSaltDissolution(s, c)
        /\ ~isChemicalDisabledForPhysicalChemical(s, c) }

LoadPhased ==
    \E e \in PhaseExperiments :
        Commit(loadExperiment(Store, e), "loadExperiment", <<e>>, NoTimer, 0)

PlacePhaseApparatus ==
    \E a \in PhaseApparatus :
        Commit(addApparatusToExperiment(Store, a), "addApparatusToExperiment", <<a>>,
               NoTimer, 0)

\* a click on an enabled chemical button
ShelfAddChemical ==
    \E c \in ShelfEnabled(Store) :
        Commit(addChemicalToExperiment(Store, c), "addChemicalToExperiment", <<c>>,
               NoTimer, 0)

\* the actions that can lead to an outcome of the loaded experiment
PerformPhaseAction ==
    \E a \in TableActions(currentExperiment) :
        Commit(performExperimentAction(Store, a), "performExperimentAction", <<a>>,
               NoTimer, 0)

\* the phased experiments behind the shelf: load, place, add, act, check, reset,
\* and the callbacks
NextPhases ==
    \/ LoadPhased
    \/ PlacePhaseApparatus
    \/ ShelfAddChemical
    \/ PerformPhaseAction
    \/ CheckReaction
    \/ ResetExperiment
    \/ FireTimer

SpecPhases == Init /\ [][NextPhases]_vars

\* the experiments completed in the generic way and in the two-phase way
CompletionExperiments == {"evaporation", "salt-dissolution"}

LoadCompletable ==
    \E e \in CompletionExperiments :
        Commit(loadExperiment(Store, e), "loadExperiment", <<e>>, NoTimer, 0)

\* App.handleMarkComplete, and the same call for an experiment not on the bench
MarkExperimentComplete ==
    \E e \in CompletionExperiments :
        Commit(markExperimentComplete(Store, e), "markExperimentComplete", <<e>>,
               NoTimer, 0)

\* completing experiments: by an outcome that succeeds, and by hand
NextCompletion ==
    \/ LoadCompletable
    \/ AddChemical
    \/ PerformPhaseAction
    \/ CheckReaction
    \/ MarkExperimentComplete
    \/ FireTimer

SpecCompletion == Init /\ [][NextCompletion]_vars

\* a click on the burner, or on the burner button of the shelf
ToggleBunsenBurner ==
    Commit(toggleBunsenBurner(Store), "toggleBunsenBurner", <<>>, NoTimer, 0)

\* heating and stirring with their deferred follow-ups
NextFollowUps ==
    \/ LoadCompletable
    \/ ShelfAddChemical
    \/ PerformPhaseAction
    \/ ToggleBunsenBurner
    \/ CheckReaction
    \/ ResetExperiment
    \/ FireTimer

SpecFollowUps == Init /\ [][NextFollowUps]_vars

\* setTimeout: a pending callback is run
SpecFollowUpsFair == SpecFollowUps /\ WF_vars(FireTimer)

\* ChemicalShelf: the button of chemId is greyed out (guided mode)
isChemicalDisabledForNeutralization(s, chemId) ==
    IF s.currentExperiment.id # "neutralization" THEN FALSE
    ELSE \/ s.neutralizationAnimating
         \/ s.neutralizationComplete
         \/ chemId = "phenolphthalein" /\ ~Includes(s.addedChemicals, "naoh")
         \/ chemId = "hcl" /\ (\/ ~Includes(s.addedChemicals, "phenolphthalein")
                               \/ ~Includes(s.placedApparatus, "dropper"))

LoadNeutralization ==
    Commit(loadExperiment(Store, "neutralization"), "loadExperiment",
           <<"neutralization">>, NoTimer, 0)

PlaceDropper ==
    Commit(addApparatusToExperiment(Store, "dropper"), "addApparatusToExperiment",
           <<"dropper">>, NoTimer, 0)

\* a click on an enabled chemical button: hydrochloric acid starts the dropper,
\* the others are added
TitrationAddChemical ==
    \E c \in Range(currentExperiment.chemicals) :
        /\ ~isChemicalDisabledForNeutralization(Store, c)
        /\ IF c = "hcl"
           THEN Commit(startNeutralizationAnimation(Store),
                       "startNeutralizationAnimation", <<>>, NoTimer, 0)
           ELSE Commit(addChemicalToExperiment(Store, c), "addChemicalToExperiment",
                       <<c>>, NoTimer, 0)

\* ChinaDish.useFrame: a drop lands while the dropper runs
IncrementNeutralizationDrops ==
    /\ neutralizationAnimating
    /\ neutralizationDropCount < TotalDrops
    /\ Commit(incrementNeutralizationDrops(Store), "incrementNeutralizationDrops",
              <<>>, NoTimer, 0)

GoToHomeScreen ==
    Commit(goToHomeScreen(Store), "goToHomeScreen", <<>>, NoTimer, 0)

\* the titration bench, left for the menu and entered again
NextTitration ==
    \/ LoadNeutralization
    \/ PlaceDropper
    \/ TitrationAddChemical
    \/ IncrementNeutralizationDrops
    \/ CheckReaction
    \/ ResetExperiment
    \/ GoToHomeScreen
    \/ FireTimer

SpecTitration == Init /\ [][NextTitration]_vars

\* an id of no experiment, apparatus, chemical or action
UnknownId == "no-such-id"

LoadAnyId ==
    \E e \in {"evaporation", UnknownId} :
        Commit(loadExperiment(Store, e), "loadExperiment", <<e>>, NoTimer, 0)

AddAnyApparatus ==
    \E a \in EngineApparatus \cup {UnknownId} :
        Commit(addApparatusToExperiment(Store, a), "addApparatusToExperiment", <<a>>,
               NoTimer, 0)

AddAnyChemical ==
    \E c \in Range(currentExperiment.chemicals) \cup {UnknownId} :
        Commit(addChemicalToExperiment(Store, c), "addChemicalToExperiment", <<c>>,
               NoTimer, 0)

PerformAnyAction ==
    \E a \in TableActions(currentExperiment) \cup {UnknownId} :
        Commit(performExperimentAction(Store, a), "performExperimentAction", <<a>>,
               NoTimer, 0)

\* the handlers called with ids they know and with one they do not
NextAnyId ==
    \/ LoadAnyId
    \/ AddAnyApparatus
    \/ AddAnyChemical
    \/ PerformAnyAction
    \/ CheckReaction
    \/ FireTimer

SpecAnyId == Init /\ [][NextAnyId]_vars

\* fills and pours per run of the reagent specification
MaxReagentOps == 4

\* an acid, a base, a metal and water
Reagents == {"hydrochloric_acid", "sodium_hydroxide", "zinc", "water"}

ReagentVesselIds == {"tube_1", "tube_2"}

FillReagent ==
    /\ volumeOps < MaxReagentOps
    /\ \E v \in ReagentVesselIds, c \in Reagents :
          Commit(fillVessel(Store, v, c, R(10)), "fillVessel", <<v, c, R(10)>>, NoTimer, 1)

PourReagent ==
    /\ volumeOps < MaxReagentOps
    /\ \E a \in ReagentVesselIds : \E b \in ReagentVesselIds \ {a} :
          Commit(transferLiquid(Store, a, b, R(20)), "transferLiquid", <<a, b, R(20)>>,
                 NoTimer, 1)

\* reagents of several categories mixed in two test tubes
NextReagents == FillReagent \/ PourReagent \/ FireTimer

SpecReagents == Init /\ [][NextReagents]_vars

\* fills and pours per run of the funnel specification
MaxFunnelOps == 3

\* what the source beaker is filled with: the shelf's min(baseVolume, space),
\* taken where the beaker has this much space left, so that two tilts empty it
FunnelFillVolume == <<61, 10>>

\* a short tilt, which leaves the source above NearEmpty, and a tilt that
\* empties it
FunnelTiltVolumes == {<<11, 10>>, R(1000)}

\* effectiveRate * delta: 12 ml/s in a frame of 1/60 s, 20 ml/s in a frame of 1 s
TransferAmounts == {<<1, 5>>, R(20)}

\* loading empties placedApparatus: the funnel is unmounted and its ref is lost
LoadFiltrationBench ==
    CommitWithRef(loadExperiment(Store, "filtration"), FALSE, "loadExperiment",
                  <<"filtration">>, NoTimer, 0)

\* the shelf's beaker button: a unique item, disabled once it is placed
PlaceSourceBeaker ==
    /\ ~Includes(placedApparatus, "beaker")
    /\ Commit(addVessel(Store, ShelfBeakerId, Vessel("beaker", 250)),
              "addVessel", <<ShelfBeakerId>>, NoTimer, 0)

\* the shelf's funnel button: disabled until the beaker is placed, and once
\* the funnel is
PlaceFunnel ==
    /\ Includes(placedApparatus, "beaker")
    /\ ~Includes(placedApparatus, "funnel")
    /\ Commit(addApparatusToExperiment(Store, "funnel"), "addApparatusToExperiment",
              <<"funnel">>, NoTimer, 0)

\* a click on the shelf's muddy-water button: it fills the first beaker that
\* is not the collection beaker and, in guided mode, records the chemical; the
\* check it defers is CheckReaction
FillSourceBeaker ==
    /\ volumeOps < MaxFunnelOps
    /\ ShelfBeakerId \in DOMAIN vessels
    /\ RLt(vessels[ShelfBeakerId].currentVolume, vessels[ShelfBeakerId].capacity)
    /\ Commit(IF currentExperiment = NoExperiment
              THEN fillVessel(Store, ShelfBeakerId, "muddy-water", FunnelFillVolume)
              ELSE addChemicalToExperiment(
                       fillVessel(Store, ShelfBeakerId, "muddy-water", FunnelFillVolume),
                       "muddy-water"),
              "fillVessel", <<ShelfBeakerId, "muddy-water", FunnelFillVolume>>, NoTimer, 1)

PourIntoFunnel ==
    /\ volumeOps < MaxFunnelOps
    /\ \E x \in FunnelTiltVolumes :
          Commit(transferLiquid(Store, ShelfBeakerId, "collection_beaker", x),
                 "transferLiquid", <<ShelfBeakerId, "collection_beaker", x>>, NoTimer, 1)

\* the funnel is mounted in the sandbox and, in guided mode, once it is placed
FunnelMounted ==
    currentExperiment = NoExperiment \/ Includes(placedApparatus, "funnel")

FunnelFrame ==
    /\ FunnelMounted
    /\ \E x \in TransferAmounts :
          CommitWithRef(useFrame(Store, wasFilteringRef, x),
                        useFrameRef(Store, wasFilteringRef),
                        "useFrame", <<x>>, NoTimer, 0)

\* the filtration bench with its funnel: set up, fill, pour, and the frames
NextFunnel ==
    \/ LoadFiltrationBench
    \/ PlaceFunnel
    \/ PlaceSourceBeaker
    \/ FillSourceBeaker
    \/ CheckReaction
    \/ PourIntoFunnel
    \/ FunnelFrame
    \/ FireTimer

SpecFunnel == Init /\ [][NextFunnel]_vars

\* ENABLED <<FunnelFrame>>_vars as a state predicate: the funnel is mounted and
\* some frame passes the guard of CommitWithRef and changes a variable
FrameCanAct ==
    /\ FunnelMounted
    /\ \E x \in TransferAmounts :
          /\ Len(useFrame(Store, wasFilteringRef, x).timers) <= MaxTimers
          /\ \/ useFrame(Store, wasFilteringRef, x) # Store
             \/ useFrameRef(Store, wasFilteringRef) # wasFilteringRef
             \/ last.op # "useFrame"
             \/ last.args # <<x>>
             \/ ~last.repeated

\* WF_vars(FunnelFrame) written out, []<>~ENABLED <<A>>_vars \/ []<><<A>>_vars,
\* with FrameCanAct for the ENABLED: the render loop calls useFrame on every
\* frame while the funnel is mounted
FrameFair == []<>(~FrameCanAct) \/ []<><<FunnelFrame>>_vars

\* frames keep being rendered while the funnel is mounted, and timers fire
SpecFunnelFair == SpecFunnel /\ FrameFair /\ WF_vars(FireTimer)

\* the store with an experiment whose outcome table is one of MatchTables
InitMatch ==
    /\ vessels = NoVessels
    /\ pendingFiltrationVolume = Zero
    /\ bunsenBurnerOn = FALSE
    /\ currentExperiment \in MatchExperiments
    /\ placedApparatus = <<>>
    /\ addedChemicals = <<>>
    /\ experimentActions = <<>>
    /\ currentObservation = <<"aim", "neutralization">>
    /\ currentExplanation = <<>>
    /\ showExplanation = FALSE
    /\ experimentHeatLevel = 0
    /\ experimentStirCount = 0
    /\ isStirring = FALSE
    /\ completedExperiments = <<>>
    /\ storedCompleted = <<>>
    /\ saltTested = FALSE
    /\ sandTested = FALSE
    /\ resetAfterSaltTest = FALSE
    /\ showResetPrompt = FALSE
    /\ resetPromptMessage = ""
    /\ showCompletionPopup = FALSE
    /\ iceTested = FALSE
    /\ paperTested = FALSE
    /\ magnesiumTested = FALSE
    /\ neutralizationAnimating = FALSE
    /\ neutralizationDropCount = 0
    /\ neutralizationComplete = FALSE
    /\ wasFilteringRef = FALSE
    /\ temperature = [id \in HeatedIds |-> Ambient]
    /\ burnerDistance = [id \in HeatedIds |-> InitialDistance(id)]
    /\ activeEffects = <<>>
    /\ reactionNotification = [reaction |-> NoReaction, vesselId |-> ""]
    /\ volumeOps = 0
    /\ timers = <<>>
    /\ last = [op |-> "init", args |-> <<>>, timer |-> NoTimer, repeated |-> FALSE]

\* the matcher on the hypothetical tables
NextMatch == AddChemical \/ PerformAction \/ CheckReaction \/ FireTimer

SpecMatch == InitMatch /\ [][NextMatch]_vars

(***************************************************************************)
(* Properties of the vessel model.                                         *)
(***************************************************************************)
\* the amount of a chemical in a content list (0 when it has no entry)
RECURSIVE AmountOf(_, _)
AmountOf(contents, chemical) ==
    IF contents = <<>> THEN Zero
    ELSE RAdd(IF contents[1].chemical = chemical THEN contents[1].volume ELSE Zero,
              AmountOf(Tail(contents), chemical))

ChemicalsOf(contents) == {contents[i].chemical : i \in 1..Len(contents)}

\* the step is a transferLiquid(a, b, x) between two distinct vessels of the store
IsTransfer ==
    /\ last'.op = "transferLiquid"
    /\ last'.args[1] # last'.args[2]
    /\ last'.args[1] \in DOMAIN vessels
    /\ last'.args[2] \in DOMAIN vessels

\* min(requested, source.currentVolume, destination.capacity - destination.currentVolume)
Clamped(a, b, x) ==
    RMin(RMin(x, vessels[a].currentVolume),
         RSub(vessels[b].capacity, vessels[b].currentVolume))

\* C1 as stated: every transferLiquid between two vessels leaves the sum of their
\* currentVolume unchanged, whichever vessel is the destination.
C1_ConservationAnyDestination ==
    [][IsTransfer =>
          LET a == last'.args[1]
              b == last'.args[2]
          IN RAdd(vessels'[a].currentVolume, vessels'[b].currentVolume)
             = RAdd(vessels[a].currentVolume, vessels[b].currentVolume)]_vars

\* C1 amended: a transferLiquid between two distinct vessels conserves the sum of
\* their currentVolume when the destination is not the collection beaker; into the
\* collection beaker it leaves that beaker as it was and conserves the source's
\* currentVolume plus the filtration buffer.
C1_ConservationWithBuffer ==
    [][IsTransfer =>
          LET a == last'.args[1]
              b == last'.args[2]
          IN IF b = "collection_beaker"
             THEN /\ vessels'[b] = vessels[b]
                  /\ RAdd(vessels'[a].currentVolume, pendingFiltrationVolume')
                     = RAdd(vessels[a].currentVolume, pendingFiltrationVolume)
             ELSE /\ RAdd(vessels'[a].currentVolume, vessels'[b].currentVolume)
                     = RAdd(vessels[a].currentVolume, vessels[b].currentVolume)
                  /\ pendingFiltrationVolume' = pendingFiltrationVolume]_vars

\* a pour out of the collection beaker has filled the shelf beaker while liquid
\* poured through the funnel is still in the buffer
C1_Witness ==
    /\ last.op = "transferLiquid"
    /\ last.args[1] = "collection_beaker"
    /\ last.args[2] = ShelfBeakerId
    /\ ShelfBeakerId \in DOMAIN vessels
    /\ RLt(Zero, vessels[ShelfBeakerId].currentVolume)
    /\ RLt(Zero, pendingFiltrationVolume)

\* C2: every vessel's currentVolume equals the sum of its content volumes within
\* the tolerance 0.01.
C2_VolumeIsSumOfContents ==
    \A id \in DOMAIN vessels :
        RLe(RAbs(RSub(vessels[id].currentVolume, SumVolumes(vessels[id].contents))), Eps)

\* C3: every vessel's currentVolume is at most its capacity.
C3_VolumeWithinCapacity ==
    \A id \in DOMAIN vessels : RLe(vessels[id].currentVolume, vessels[id].capacity)

\* C4: fillVessel(v, chemical, requested) adds min(requested, capacity - currentVolume)
\* to v: nothing changes when that is <= 0 or v is no vessel; otherwise currentVolume
\* grows by it, the one entry of the chemical grows by it, and nothing else changes.
C4_FillAddsClampedAmount ==
    [][last'.op = "fillVessel" =>
          LET v == last'.args[1]
              c == last'.args[2]
              x == last'.args[3]
          IN IF v \notin DOMAIN vessels THEN Store' = Store
             ELSE LET amount == RMin(x, RSub(vessels[v].capacity, vessels[v].currentVolume))
                      before == vessels[v].contents
                      after == vessels'[v].contents
                  IN IF RLe(amount, Zero) THEN Store' = Store
                     ELSE /\ vessels'[v].currentVolume = RAdd(vessels[v].currentVolume, amount)
                          /\ Cardinality({i \in 1..Len(after) : after[i].chemical = c}) = 1
                          /\ AmountOf(after, c) = RAdd(AmountOf(before, c), amount)
                          /\ \A d \in ChemicalsOf(before) \cup ChemicalsOf(after) :
                                d # c => AmountOf(after, d) = AmountOf(before, d)
                          /\ Len(after) = Len(before) + (IF c \in ChemicalsOf(before) THEN 0 ELSE 1)
                          /\ \A w \in DOMAIN vessels : w # v => vessels'[w] = vessels[w]
                          /\ DOMAIN vessels' = DOMAIN vessels]_vars

\* filling 1000 of water into the empty 500 beaker gave currentVolume 500 and the
\* one entry {water, 500}
C4_Witness ==
    /\ last.op = "fillVessel"
    /\ last.args = <<"beaker_1", "water", R(1000)>>
    /\ vessels["beaker_1"].currentVolume = R(500)
    /\ vessels["beaker_1"].contents = <<Content("water", R(500))>>

\* C5: transferLiquid(a, b, requested) moves min(requested, a.currentVolume,
\* b.capacity - b.currentVolume); nothing changes when that is <= 0; when all of the
\* source is moved the source ends empty and the destination gains the source's entries.
C5_TransferMovesClampedAmount ==
    [][(last'.op = "transferLiquid" /\ last'.args[1] # last'.args[2]) =>
          LET a == last'.args[1]
              b == last'.args[2]
              x == last'.args[3]
          IN IF a \notin DOMAIN vessels \/ b \notin DOMAIN vessels THEN Store' = Store
             ELSE IF RLe(Clamped(a, b, x), Zero) THEN Store' = Store
             ELSE /\ vessels'[a].currentVolume
                     = RSub(vessels[a].currentVolume, Clamped(a, b, x))
                  /\ vessels'[b].currentVolume
                     = RAdd(vessels[b].currentVolume, Clamped(a, b, x))
                  /\ Clamped(a, b, x) = vessels[a].currentVolume =>
                        /\ vessels'[a].contents = <<>>
                        /\ vessels'[a].currentVolume = Zero
                        /\ \A c \in ChemicalsOf(vessels[a].contents)
                                    \cup ChemicalsOf(vessels[b].contents)
                                    \cup ChemicalsOf(vessels'[b].contents) :
                              AmountOf(vessels'[b].contents, c)
                              = RAdd(AmountOf(vessels[b].contents, c),
                                     AmountOf(vessels[a].contents, c))]_vars

\* C6: a transfer removes the fraction actualAmount / source.currentVolume from every
\* entry of the source (a residue of at most 0.01 may be pruned from the source) and
\* the destination receives, merged by chemical id, the sub-amount removed from each.
C6_ProportionalTransfer ==
    [][(IsTransfer /\ RLt(Zero, Clamped(last'.args[1], last'.args[2], last'.args[3]))) =>
          LET a == last'.args[1]
              b == last'.args[2]
              ratio == RDiv(Clamped(a, b, last'.args[3]), vessels[a].currentVolume)
          IN \A c \in ChemicalsOf(vessels[a].contents) \cup ChemicalsOf(vessels[b].contents)
                      \cup ChemicalsOf(vessels'[b].contents) :
                LET had == AmountOf(vessels[a].contents, c)
                    moved == RMul(had, ratio)
                IN /\ \/ AmountOf(vessels'[a].contents, c) = RSub(had, moved)
                      \/ /\ RLe(RSub(had, moved), Eps)
                         /\ AmountOf(vessels'[a].contents, c) = Zero
                   /\ AmountOf(vessels'[b].contents, c)
                      = RAdd(AmountOf(vessels[b].contents, c), moved)]_vars


(***************************************************************************)
(* Properties of the experiment engine.                                    *)
(***************************************************************************)
\* the ids the idempotence is tried with: those of the loaded experiment and one
\* that no experiment knows
ProbeChemicals == Range(currentExperiment.chemicals) \cup {"unknown-chemical"}

ProbeApparatus == EngineApparatus \cup {"unknown-apparatus"}

\* C7: addApparatus, addChemical and performAction are idempotent: in every reachable
\* state, applying one of them twice with the same id gives the store (accumulation
\* lists, heat level, stir count, stirring flag, pending callbacks) that applying it
\* once gives.
C7_Idempotent ==
    /\ \A a \in ProbeApparatus :
          addApparatusToExperiment(addApparatusToExperiment(Store, a), a)
          = addApparatusToExperiment(Store, a)
    /\ \A c \in ProbeChemicals :
          addChemicalToExperiment(addChemicalToExperiment(Store, c), c)
          = addChemicalToExperiment(Store, c)
    /\ \A a \in ActionVocabulary :
          performExperimentAction(performExperimentAction(Store, a), a)
          = performExperimentAction(Store, a)

\* 'stir' was performed twice in a row: one 'stir' in the actions, stir count 1,
\* stirring, and the one callback of the first call pending
C7_Witness ==
    /\ last.op = "performExperimentAction"
    /\ last.args = <<"stir">>
    /\ last.repeated
    /\ experimentActions = <<"stir">>
    /\ experimentStirCount = 1
    /\ isStirring
    /\ timers = <<Timer("stirDone", "", NoReaction)>>

\* the step is a checkExperimentReaction() command with an experiment loaded
IsCheck == last'.op = "checkExperimentReaction" /\ currentExperiment # NoExperiment

\* the keys made of the chemicals plus the actions: joined as they were added, or
\* each list sorted
KeysWithActions == {addedChemicals \o experimentActions,
                    Sort(addedChemicals) \o Sort(experimentActions)}

\* the keys made of the chemicals alone
KeysOfChemicals == {addedChemicals, Sort(addedChemicals)}

\* C8: when the outcome table defines both the key made of the current chemicals plus
\* the current actions and the key made of the current chemicals alone,
\* checkExperimentReaction applies the outcome of the key with the actions.
C8_SignatureRanking ==
    [][(/\ IsCheck
        /\ addedChemicals # <<>>
        /\ experimentActions # <<>>
        /\ \E k \in KeysWithActions : Defines(currentExperiment.reactions, k)
        /\ \E k \in KeysOfChemicals : Defines(currentExperiment.reactions, k))
       => \E k \in KeysWithActions :
             /\ Defines(currentExperiment.reactions, k)
             /\ Store' = applyMatched(Store, k)]_vars

\* phenolphthalein then naoh were added and 'heat' performed, the table defines
\* "naoh+phenolphthalein+heat" and "naoh+phenolphthalein", and the check showed the
\* outcome of the former
C8_Witness ==
    /\ last.op = "checkExperimentReaction"
    /\ addedChemicals = <<"phenolphthalein", "naoh">>
    /\ experimentActions = <<"heat">>
    /\ Defines(currentExperiment.reactions, <<"naoh", "phenolphthalein", "heat">>)
    /\ Defines(currentExperiment.reactions, <<"naoh", "phenolphthalein">>)
    /\ currentObservation = ObsOutcome(<<"naoh", "phenolphthalein", "heat">>)

KeyChemicals(key) == {key[i] : i \in {j \in 1..Len(key) : key[j] \notin ActionVocabulary}}

KeyActions(key) == {key[i] : i \in {j \in 1..Len(key) : key[j] \in ActionVocabulary}}

\* C9: whatever the order in which the chemicals were added and the actions performed,
\* when the outcome table defines a key whose chemical tokens and action tokens are
\* exactly the current chemicals and actions, checkExperimentReaction applies the
\* outcome of that key.
C9_ExactKeyNeverMasked ==
    [][IsCheck =>
          \A i \in 1..Len(currentExperiment.reactions) :
              LET k == currentExperiment.reactions[i].key
              IN (/\ KeyChemicals(k) = Range(addedChemicals)
                  /\ KeyActions(k) = Range(experimentActions))
                 => Store' = applyMatched(Store, k)]_vars

\* the store without its pending callbacks
StoreFields == [Store EXCEPT !.timers = <<>>]

\* C10: a callback scheduled before a resetExperiment() that fires after it leaves
\* every field of the store as it was.
C10_StaleCallbacksInert ==
    [][(last'.op = "timer" /\ last'.timer.stale) => StoreFields' = StoreFields]_vars

(***************************************************************************)
(* The phased experiments.                                                 *)
(***************************************************************************)
\* the step runs checkExperimentReaction on a loaded experiment: the command, or
\* the callback that ends a stir
IsCheckStep ==
    /\ currentExperiment # NoExperiment
    /\ \/ last'.op = "checkExperimentReaction"
       \/ last'.op = "timer" /\ last'.timer.kind = "stirDone"

\* the key the check of this step matches
StepKey == MatchedKey(currentExperiment.reactions, addedChemicals, experimentActions)

IsReset == last'.op = "resetExperiment" /\ currentExperiment # NoExperiment

SetsEmpty ==
    placedApparatus = <<>> /\ addedChemicals = <<>> /\ experimentActions = <<>>

\* C11: in salt-dissolution, a check that completes the salt phase sets
\* saltTested and raises the reset prompt; a reset with the salt phase alone
\* complete empties the three lists, keeps saltTested, sets resetAfterSaltTest
\* and clears the prompt; a check that then completes the sand phase sets
\* sandTested and has the experiment in completedExperiments, the lists of the
\* attempt left as they are (no reset in between).
C11_TwoPhaseReset ==
    [][ currentExperiment.id = "salt-dissolution" =>
          /\ (IsCheckStep /\ StepKey = <<"water", "salt", "stir">>
                 /\ ~saltTested /\ ~sandTested)
              => (saltTested' /\ ~sandTested' /\ showResetPrompt')
          /\ (IsReset /\ saltTested /\ ~sandTested)
              => (SetsEmpty' /\ saltTested' /\ ~sandTested'
                  /\ resetAfterSaltTest' /\ ~showResetPrompt')
          /\ (IsCheckStep /\ StepKey = <<"water", "sand", "stir">>
                 /\ saltTested /\ ~sandTested)
              => (saltTested' /\ sandTested'
                  /\ Includes(completedExperiments', "salt-dissolution")
                  /\ addedChemicals' = addedChemicals
                  /\ experimentActions' = experimentActions
                  /\ resetAfterSaltTest' = resetAfterSaltTest)
      ]_vars

\* the sand phase was completed after a reset that followed the salt phase
C11_Witness ==
    /\ currentExperiment.id = "salt-dissolution"
    /\ last.op = "timer" /\ last.timer.kind = "stirDone"
    /\ addedChemicals = <<"water", "sand">>
    /\ Includes(experimentActions, "stir")
    /\ saltTested /\ sandTested /\ resetAfterSaltTest
    /\ Includes(completedExperiments, "salt-dissolution")

\* the phase flags of the loaded experiment
PhaseFlags ==
    IF currentExperiment.id = "salt-dissolution" THEN <<saltTested, sandTested>>
    ELSE IF currentExperiment.id = "physical-chemical"
    THEN <<iceTested, paperTested, magnesiumTested>>
    ELSE <<>>

AllPhasesDone == PhaseFlags # <<>> /\ \A i \in 1..Len(PhaseFlags) : PhaseFlags[i]

SomePhasesDone ==
    /\ \E i \in 1..Len(PhaseFlags) : PhaseFlags[i]
    /\ \E i \in 1..Len(PhaseFlags) : ~PhaseFlags[i]

AllCleared(flags) == \A i \in 1..Len(flags) : ~flags[i]

\* C12 as stated: a reset empties the three lists; with every phase flag of the
\* loaded experiment set it clears them and the resumed flag; with some but not
\* all set it keeps the flags and sets the resumed flag, in the two-phase and in
\* the three-phase experiment alike.
C12_ResumedFlagInBothFamilies ==
    [][ IsReset =>
          /\ SetsEmpty'
          /\ AllPhasesDone => (AllCleared(PhaseFlags') /\ ~resetAfterSaltTest')
          /\ SomePhasesDone => (PhaseFlags' = PhaseFlags /\ resetAfterSaltTest')
      ]_vars

\* C12 amended: a reset empties the three lists; with every phase flag of the
\* loaded experiment set it clears them (and, in salt-dissolution, the resumed
\* flag); otherwise it leaves them as they are.  The resumed flag is set in
\* salt-dissolution alone, when the salt phase is the one complete; a reset of
\* physical-chemical leaves it as it is.
C12_ResumedFlagInTwoPhaseOnly ==
    [][ IsReset =>
          /\ SetsEmpty'
          /\ AllPhasesDone => AllCleared(PhaseFlags')
          /\ ~AllPhasesDone => PhaseFlags' = PhaseFlags
          /\ currentExperiment.id = "salt-dissolution" =>
                /\ AllPhasesDone => ~resetAfterSaltTest'
                /\ (saltTested /\ ~sandTested) => resetAfterSaltTest'
                /\ ~saltTested => resetAfterSaltTest' = resetAfterSaltTest
          /\ currentExperiment.id = "physical-chemical" =>
                resetAfterSaltTest' = resetAfterSaltTest
      ]_vars

\* a reset between rounds of physical-chemical, in a run that follows a full
\* reset of a finished one
C12_Witness ==
    /\ currentExperiment.id = "physical-chemical"
    /\ last.op = "resetExperiment"
    /\ iceTested /\ ~paperTested /\ ~magnesiumTested
    /\ Includes(completedExperiments, "physical-chemical")
    /\ SetsEmpty

\* C13: loadExperiment of a known id empties the three lists and leaves every
\* phase flag as it is, except that the flags of the experiment loaded are
\* cleared when all of them are set (the experiment restarts from phase one).
C13_LoadRestartsFinishedExperiment ==
    [][ last'.op = "loadExperiment" =>
          /\ SetsEmpty'
          /\ currentExperiment'.id = "salt-dissolution" =>
                /\ UNCHANGED <<iceTested, paperTested, magnesiumTested>>
                /\ IF saltTested /\ sandTested
                   THEN ~saltTested' /\ ~sandTested'
                   ELSE UNCHANGED <<saltTested, sandTested>>
          /\ currentExperiment'.id = "physical-chemical" =>
                /\ UNCHANGED <<saltTested, sandTested>>
                /\ IF iceTested /\ paperTested /\ magnesiumTested
                   THEN ~iceTested' /\ ~paperTested' /\ ~magnesiumTested'
                   ELSE UNCHANGED <<iceTested, paperTested, magnesiumTested>>
      ]_vars

(***************************************************************************)
(* The completion set.                                                     *)
(***************************************************************************)
NoDuplicates(seq) == \A i, j \in 1..Len(seq) : seq[i] = seq[j] => i = j

\* C14: completedExperiments never holds an id twice; markExperimentComplete
\* of an id already in it leaves it unchanged; every step that changes it
\* leaves the persisted copy equal to it.
C14_IdempotentCompletion ==
    [][ /\ NoDuplicates(completedExperiments')
        /\ (last'.op = "markExperimentComplete"
                /\ Includes(completedExperiments, last'.args[1]))
            => UNCHANGED <<completedExperiments, storedCompleted>>
        /\ completedExperiments' # completedExperiments
            => storedCompleted' = completedExperiments'
      ]_vars

\* both experiments are complete, one by its outcome and one by hand, and the
\* last command marked a completed experiment again
C14_Witness ==
    /\ last.op = "markExperimentComplete" /\ last.repeated
    /\ Len(completedExperiments) = 2
    /\ saltTested /\ sandTested
    /\ storedCompleted = completedExperiments

(***************************************************************************)
(* The titration.                                                          *)
(***************************************************************************)
\* the fade of the first TotalDrops - 1 drops stays below a third
SubtleFade == <<1, 3>>

\* C15: a drop counted while the titration is not complete leaves it incomplete
\* as long as the count is 1..4 and completes it when the count reaches 5; the
\* colour progress of the counts 1..4 is below SubtleFade and that of 5 is 1.
C15_TitrationThreshold ==
    [][ (last'.op = "incrementNeutralizationDrops" /\ ~neutralizationComplete) =>
          /\ neutralizationDropCount' = neutralizationDropCount + 1
          /\ neutralizationDropCount' \in 1..4 =>
                /\ ~neutralizationComplete'
                /\ RLt(Zero, displayProgress(neutralizationDropCount'))
                /\ RLt(displayProgress(neutralizationDropCount'), SubtleFade)
          /\ neutralizationDropCount' >= 5 =>
                /\ neutralizationDropCount' = 5
                /\ neutralizationComplete'
                /\ displayProgress(neutralizationDropCount') = R(1)
      ]_vars

\* the fifth drop has landed
C15_Witness ==
    /\ last.op = "incrementNeutralizationDrops"
    /\ neutralizationDropCount = 5
    /\ neutralizationComplete /\ ~neutralizationAnimating
    /\ addedChemicals = <<"naoh", "phenolphthalein", "hcl">>
    /\ Includes(completedExperiments, "neutralization")

(***************************************************************************)
(* Ids the handlers do not know.                                           *)
(***************************************************************************)
\* C16: loadExperiment, addApparatusToExperiment, addChemicalToExperiment and
\* performExperimentAction called with an id that names nothing leave the store
\* as it is.
C16_UnknownIdIsNoOp ==
    [][ ( /\ last'.op \in {"loadExperiment", "addApparatusToExperiment",
                           "addChemicalToExperiment", "performExperimentAction"}
          /\ last'.args = <<UnknownId>> )
        => Store' = Store
      ]_vars

(***************************************************************************)
(* Leaving the bench.                                                      *)
(***************************************************************************)
\* C17: after goToHomeScreen the three lists are empty and the phase flags, the
\* resumed flag, the reset prompt and the titration counter and flags have
\* their initial values.
C17_HomeScreenDestroysRunState ==
    [][ last'.op = "goToHomeScreen" =>
          /\ currentExperiment' = NoExperiment
          /\ SetsEmpty'
          /\ ~saltTested' /\ ~sandTested' /\ ~resetAfterSaltTest'
          /\ ~iceTested' /\ ~paperTested' /\ ~magnesiumTested'
          /\ ~showResetPrompt'
          /\ neutralizationDropCount' = 0
          /\ ~neutralizationAnimating' /\ ~neutralizationComplete'
      ]_vars

(***************************************************************************)
(* Reactions of the sandbox.                                               *)
(***************************************************************************)
\* the step is the deferred applyReaction on a vessel of the store
IsApplyReaction ==
    /\ last'.op = "timer"
    /\ last'.timer.kind = "applyReaction"
    /\ last'.timer.vesselId \in DOMAIN vessels

\* C18: applyReaction replaces the contents of the vessel by the products of the
\* rule, in the rule's order, their equal volumes adding up to the volume the
\* vessel had; it leaves the vessel's volume, capacity and type and every other
\* vessel as they were, appends one effect per effect tag of the rule, and sets
\* the notification to the rule and the vessel.
C18_ApplyReactionEqualSplit ==
    [][ IsApplyReaction =>
          LET v == last'.timer.vesselId
              rule == REACTIONS[last'.timer.reaction]
              n == Len(rule.products)
              before == Len(activeEffects)
          IN /\ DOMAIN vessels' = DOMAIN vessels
             /\ \A w \in DOMAIN vessels \ {v} : vessels'[w] = vessels[w]
             /\ vessels'[v].currentVolume = vessels[v].currentVolume
             /\ vessels'[v].capacity = vessels[v].capacity
             /\ vessels'[v].type = vessels[v].type
             /\ Len(vessels'[v].contents) = n
             /\ \A i \in 1..n :
                   /\ vessels'[v].contents[i].chemical = rule.products[i]
                   /\ RMul(vessels'[v].contents[i].volume, R(n)) = vessels[v].currentVolume
             /\ Len(activeEffects') = before + Len(rule.effects)
             /\ SubSeq(activeEffects', 1, before) = activeEffects
             /\ \A i \in 1..Len(rule.effects) :
                   /\ activeEffects'[before + i].type = rule.effects[i]
                   /\ activeEffects'[before + i].vesselId = v
             /\ reactionNotification' = [reaction |-> last'.timer.reaction, vesselId |-> v]
      ]_vars

\* a neutralization was applied to a vessel that holds liquid
C18_Witness ==
    /\ last.op = "timer" /\ last.timer.kind = "applyReaction"
    /\ last.timer.vesselId \in DOMAIN vessels
    /\ RLt(Zero, vessels[last.timer.vesselId].currentVolume)
    /\ Len(vessels[last.timer.vesselId].contents) = 2
    /\ vessels[last.timer.vesselId].contents[1].chemical = "water"
    /\ Len(activeEffects) = 2
    /\ reactionNotification.reaction = last.timer.reaction

\* Chemical.type
Categories == {"water", "acid", "base", "metal", "indicator", "salt", "neutral"}

TypeAt(contents, i) == ChemType(contents[i].chemical)

\* the rules whose category pair is {t1, t2}
RulesOf(t1, t2) ==
    { k \in 1..Len(REACTIONS) :
        {REACTIONS[k].type1, REACTIONS[k].type2} = {t1, t2} }

Min(S) == CHOOSE x \in S : \A y \in S : x <= y

\* the pairs of distinct entries some rule is about, each as <<i, j>> with i < j
ReactingPairs(contents) ==
    { p \in (1..Len(contents)) \X (1..Len(contents)) :
        p[1] < p[2] /\ RulesOf(TypeAt(contents, p[1]), TypeAt(contents, p[2])) # {} }

\* the pair the nested loops (i ascending, then j ascending) reach first
FirstPair(pairs) ==
    CHOOSE p \in pairs :
        \A q \in pairs : p[1] < q[1] \/ (p[1] = q[1] /\ p[2] <= q[2])

\* the vessel whose contents the command checks for a reaction
CheckedVessel == IF last'.op = "fillVessel" THEN last'.args[1] ELSE last'.args[2]

\* C19: for the contents of every vessel, checkReaction reports a reaction iff
\* some pair of distinct entries has the category pair of a rule, and then the
\* first rule of the first such pair; findReaction is symmetric; a fillVessel
\* or transferLiquid that leaves contents without a reacting pair schedules
\* nothing.
C19_FirstReactingPairWins ==
    [][ /\ \A v \in DOMAIN vessels' :
              LET contents == vessels'[v].contents
                  pairs == ReactingPairs(contents)
              IN /\ checkReaction(contents) # NoReaction <=> pairs # {}
                 /\ pairs # {} =>
                       checkReaction(contents) =
                           Min(RulesOf(TypeAt(contents, FirstPair(pairs)[1]),
                                       TypeAt(contents, FirstPair(pairs)[2])))
        /\ \A t1, t2 \in Categories : findReaction(t1, t2) = findReaction(t2, t1)
        /\ ( /\ last'.op \in {"fillVessel", "transferLiquid"}
             /\ CheckedVessel \in DOMAIN vessels'
             /\ ReactingPairs(vessels'[CheckedVessel].contents) = {} )
           => timers' = timers
      ]_vars

\* zinc, base and acid in one tube: the first reacting pair is zinc and acid,
\* whose rule comes second in the rule list, and its reaction is scheduled
C19_Witness ==
    /\ last.op = "transferLiquid"
    /\ Len(vessels["tube_1"].contents) = 3
    /\ ReactingPairs(vessels["tube_1"].contents) = {<<1, 3>>, <<2, 3>>}
    /\ checkReaction(vessels["tube_1"].contents) = 2
    /\ Len(timers) = 1
    /\ timers[1].reaction = 2 /\ timers[1].vesselId = "tube_1"

(***************************************************************************)
(* The funnel.                                                             *)
(***************************************************************************)
IsFrame == last'.op = "useFrame"

\* the frame reads a buffer that is not above the threshold after frames that did
IsDrainEdge ==
    IsFrame /\ wasFilteringRef /\ RLe(pendingFiltrationVolume, DrainThreshold)

FilterAdded ==
    ~Includes(experimentActions, "filter") /\ Includes(experimentActions', "filter")

\* what a reaction check and the actions write
GuidedFields ==
    << experimentActions, currentObservation, currentExplanation, showExplanation,
       completedExperiments, storedCompleted, timers >>

\* 'filter' is added only by the frame of a drain edge whose source beakers
\* hold less than NearEmpty; the edge clears the ref, so it is taken once per
\* draining episode; an edge with the source above the threshold changes
\* nothing in the store; a frame that is no edge checks no reaction
FunnelEdgeTriggered ==
    [][ /\ FilterAdded =>
              (IsDrainEdge /\ RLt(totalSourceVolume(vessels), NearEmpty))
        /\ IsDrainEdge => ~wasFilteringRef'
        /\ (IsDrainEdge /\ ~RLt(totalSourceVolume(vessels), NearEmpty))
              => Store' = Store
        /\ (IsFrame /\ ~IsDrainEdge) => GuidedFields' = GuidedFields
      ]_vars

\* the funnel is mounted and the source beaker has been poured out
AllPoured ==
    /\ currentExperiment.id = "filtration"
    /\ Includes(placedApparatus, "funnel")
    /\ Includes(experimentActions, "pour")
    /\ ShelfBeakerId \in DOMAIN vessels
    /\ totalSourceVolume(vessels) = Zero

\* the source is no longer poured out, or the buffer is zero and 'filter' done
FilteredToZero ==
    \/ ~AllPoured
    \/ /\ pendingFiltrationVolume = Zero
       /\ Includes(experimentActions, "filter")

\* the source is no longer poured out, or the buffer is at most DrainThreshold
\* and 'filter' done
FilteredToThreshold ==
    \/ ~AllPoured
    \/ /\ RLe(pendingFiltrationVolume, DrainThreshold)
       /\ Includes(experimentActions, "filter")

\* C20 as stated: filtration completion is edge-triggered, and once the source
\* has been poured out (and stays so) the buffer eventually is zero and
\* 'filter' performed.
C20_BufferDrainsToZero ==
    FunnelEdgeTriggered /\ (AllPoured ~> FilteredToZero)

\* C20 amended: filtration completion is edge-triggered, and once the source
\* has been poured out (and stays so) the buffer eventually is at most
\* DrainThreshold and 'filter' performed.
C20_BufferDrainsToThreshold ==
    FunnelEdgeTriggered /\ (AllPoured ~> FilteredToThreshold)

\* the frame of the edge has performed 'filter' and completed the experiment,
\* after an earlier pause of the pour; a rest of liquid stays in the buffer
C20_Witness ==
    /\ last.op = "useFrame"
    /\ AllPoured
    /\ ~wasFilteringRef
    /\ experimentActions = <<"pour", "filter">>
    /\ Includes(completedExperiments, "filtration")
    /\ RLt(Zero, pendingFiltrationVolume)
    /\ RLe(pendingFiltrationVolume, DrainThreshold)
    /\ vessels["collection_beaker"].currentVolume = R(6)

(***************************************************************************)
(* The filtration buffer.                                                  *)
(***************************************************************************)
IsPourIntoFunnel == IsTransfer /\ last'.args[2] = "collection_beaker"

IsRelease == last'.op = "addFiltrate"

\* source beakers + buffer + collection beaker
BenchVolume(vs, pending) ==
    RAdd(RAdd(totalSourceVolume(vs), pending),
         IF "collection_beaker" \in DOMAIN vs
         THEN vs["collection_beaker"].currentVolume ELSE Zero)

\* min(v, pending), what a release moves; nothing without a collection beaker
Released(v) ==
    IF "collection_beaker" \in DOMAIN vessels /\ RLt(Zero, pendingFiltrationVolume)
    THEN RMin(v, pendingFiltrationVolume) ELSE Zero

\* C21: a transferLiquid into the collection beaker leaves that beaker as it was
\* and adds the amount moved to the buffer; addFiltrate(v) moves exactly
\* min(v, pending) from the buffer into the collection beaker; every pour and
\* every release keeps the buffer >= 0 and the sum of the source beakers, the
\* buffer and the collection beaker constant.
C21_BufferConservesVolume ==
    [][ /\ IsPourIntoFunnel =>
              LET moved == Clamped(last'.args[1], last'.args[2], last'.args[3])
              IN /\ vessels'["collection_beaker"] = vessels["collection_beaker"]
                 /\ pendingFiltrationVolume' =
                       IF RLt(Zero, moved) THEN RAdd(pendingFiltrationVolume, moved)
                       ELSE pendingFiltrationVolume
        /\ IsRelease =>
              /\ pendingFiltrationVolume' =
                    RSub(pendingFiltrationVolume, Released(last'.args[1]))
              /\ "collection_beaker" \in DOMAIN vessels =>
                    vessels'["collection_beaker"].currentVolume =
                       RAdd(vessels["collection_beaker"].currentVolume,
                            Released(last'.args[1]))
        /\ (IsTransfer \/ IsRelease) =>
              /\ RLe(Zero, pendingFiltrationVolume')
              /\ BenchVolume(vessels', pendingFiltrationVolume')
                    = BenchVolume(vessels, pendingFiltrationVolume)
      ]_vars

\* a release has moved a part of the buffer while the source still holds liquid
C21_Witness ==
    /\ last.op = "addFiltrate"
    /\ last.args[1] = <<1, 5>>
    /\ ShelfBeakerId \in DOMAIN vessels
    /\ RLt(Zero, vessels[ShelfBeakerId].currentVolume)
    /\ RLt(Zero, pendingFiltrationVolume)
    /\ vessels["collection_beaker"].currentVolume = <<1, 5>>

(***************************************************************************)
(* The gate of the three-phase experiment.                                 *)
(***************************************************************************)
\* C22: whenever paper is enabled, iceTested holds, ice is not in addedChemicals
\* and the tongs are placed; whenever magnesium is enabled, iceTested and
\* paperTested hold, paper is not in addedChemicals and the tongs are placed;
\* whenever ice is enabled, iceTested is false.
C22_ThreePhaseGating ==
    /\ "paper" \in ShelfEnabled(Store) =>
          /\ iceTested
          /\ ~Includes(addedChemicals, "ice")
          /\ Includes(placedApparatus, "tongs")
    /\ "magnesium" \in ShelfEnabled(Store) =>
          /\ iceTested /\ paperTested
          /\ ~Includes(addedChemicals, "paper")
          /\ Includes(placedApparatus, "tongs")
    /\ "ice" \in ShelfEnabled(Store) => ~iceTested

\* round 3 is open: after the reset that followed the paper test the tongs
\* are placed again and magnesium is the one enabled chemical
C22_Witness ==
    /\ last.op = "addApparatusToExperiment"
    /\ currentExperiment.id = "physical-chemical"
    /\ ShelfEnabled(Store) = {"magnesium"}
    /\ addedChemicals = <<>>

(***************************************************************************)
(* The deferred follow-ups of heat and stir.                               *)
(***************************************************************************)
\* performAction('heat') was the last command, in the evaporation experiment
\* with the salt solution added
HeatPerformed ==
    /\ currentExperiment.id = "evaporation"
    /\ Includes(addedChemicals, "salt-solution")
    /\ last.op = "performExperimentAction"
    /\ last.args = <<"heat">>

\* the attempt was ended by a reset or by loading an experiment
Intervened == last.op \in {"resetExperiment", "loadExperiment"}

\* the follow-up has run and its check has applied the success outcome
Evaporated ==
    /\ Includes(experimentActions, "evaporate")
    /\ Includes(completedExperiments, "evaporation")

\* the step ends a stir: isStirring goes from true to false
StirEnds == isStirring /\ ~isStirring'

\* the callback of the stir of this attempt fires
OwnStirDone ==
    /\ last'.op = "timer"
    /\ last'.timer.kind = "stirDone"
    /\ ~last'.timer.stale

CompletionAdded(experimentId) ==
    /\ ~Includes(completedExperiments, experimentId)
    /\ Includes(completedExperiments', experimentId)

\* C24: a reaction check inserts physical-chemical into the completion set only
\* when iceTested and paperTested are already true and magnesiumTested becomes
\* true, and salt-dissolution only when saltTested and sandTested are both true.
C24_CompletionNeedsAllPhases ==
    [][ /\ (IsCheckStep /\ CompletionAdded("physical-chemical")) =>
              (iceTested /\ paperTested /\ magnesiumTested')
        /\ (IsCheckStep /\ CompletionAdded("salt-dissolution")) =>
              (saltTested' /\ sandTested')
      ]_vars

\* the check of magnesium+heat has just completed the three-phase experiment
C24_Witness ==
    /\ last.op = "checkExperimentReaction"
    /\ currentExperiment.id = "physical-chemical"
    /\ addedChemicals = <<"magnesium">>
    /\ iceTested /\ paperTested /\ magnesiumTested
    /\ Includes(completedExperiments, "physical-chemical")
    /\ Len(timers) = 1 /\ timers[1].kind = "completionPopup"

(***************************************************************************)
(* The heating system: frames, drags, the burner, water and ice.           *)
(***************************************************************************)
\* the drag handlers: a release within 0.8 of the burner snaps onto the stand
heatingZoneRadius == <<4, 5>>

snapToHeatingZone(distance) == IF RLt(distance, heatingZoneRadius) THEN Zero ELSE distance

\* one frame of HeatingSystem: every vessel's temperature, and the boiling and
\* steam effects of the first vessel that passes the tests when more than 5 s
\* have gone by since the last boil (boilDue)
HeatingFrame ==
    /\ volumeOps < MaxHeatFrames
    /\ \E delta \in HeatDeltas, boilDue \in BOOLEAN :
          LET live == HeatedIds \cap DOMAIN vessels
              temps == [id \in HeatedIds |->
                          IF id \in live
                          THEN frameTemperature(bunsenBurnerOn, temperature[id],
                                                burnerDistance[id], delta)
                          ELSE temperature[id]]
              boiling == SelectSeq(HeatedOrder,
                                   LAMBDA id : canBoil(Store, temperature,
                                                       burnerDistance, id))
              effects == IF boilDue /\ boiling # <<>>
                         THEN BoilingEffects(Head(boiling)) ELSE <<>>
          IN CommitHeated([Store EXCEPT !.activeEffects = @ \o effects],
                          wasFilteringRef, temps, burnerDistance,
                          "heatingFrame", <<delta, boilDue>>, NoTimer, 1)

\* a vessel dragged over the bench and released
DragVessel ==
    \E id \in HeatedIds \cap DOMAIN vessels, d \in DragDistances :
        CommitHeated(Store, wasFilteringRef, temperature,
                     [burnerDistance EXCEPT ![id] = snapToHeatingZone(d)],
                     "updateVesselPosition", <<id, d>>, NoTimer, 0)

\* the sandbox shelf: 100 ml of water, or what fits, into the first beaker
FillHeatedBeaker ==
    /\ currentExperiment = NoExperiment
    /\ "beaker_1" \in DOMAIN vessels
    /\ LET space == RSub(vessels["beaker_1"].capacity, vessels["beaker_1"].currentVolume)
       IN /\ RLt(Zero, space)
          /\ Commit(fillVessel(Store, "beaker_1", "water", RMin(R(100), space)),
                    "fillVessel", <<"beaker_1", "water">>, NoTimer, 0)

LoadPhysicalChemical ==
    Commit(loadExperiment(Store, "physical-chemical"), "loadExperiment",
           <<"physical-chemical">>, NoTimer, 0)

\* the first round of the three-phase experiment
isRound1_Ice(s) ==
    /\ s.currentExperiment.id = "physical-chemical"
    /\ ~s.iceTested \/ Includes(s.addedChemicals, "ice")

\* the tripod and burner buttons of the shelf
PlaceHeatApparatus ==
    \E a \in {"tripod-stand", "burner"} :
        /\ currentExperiment.id = "physical-chemical"
        /\ ~Includes(placedApparatus, a)
        /\ a = "tripod-stand" => isRound1_Ice(Store)
        /\ a = "burner" =>
              ~isRound1_Ice(Store) \/ Includes(placedApparatus, "tripod-stand")
        /\ Commit(addApparatusToExperiment(Store, a), "addApparatusToExperiment",
                  <<a>>, NoTimer, 0)

\* the beaker button in the first round: the new beaker stands on the tripod,
\* over the burner, at 25 degrees
PlaceHeatedBeaker ==
    /\ isRound1_Ice(Store)
    /\ ~Includes(placedApparatus, "beaker")
    /\ Includes(placedApparatus, "tripod-stand")
    /\ Includes(placedApparatus, "burner")
    /\ CommitHeated(addApparatusToExperiment(
                        addVessel(Store, ShelfBeakerId, Vessel("beaker", 250)),
                        "beaker"),
                    wasFilteringRef,
                    [temperature EXCEPT ![ShelfBeakerId] = Ambient],
                    [burnerDistance EXCEPT ![ShelfBeakerId] = Zero],
                    "addVessel", <<ShelfBeakerId>>, NoTimer, 0)

\* a click on the ice button: 100 ml of ice, or what fits, into the beaker
AddIce ==
    /\ "ice" \in ShelfEnabled(Store)
    /\ ShelfBeakerId \in DOMAIN vessels
    /\ LET space == RSub(vessels[ShelfBeakerId].capacity,
                         vessels[ShelfBeakerId].currentVolume)
       IN /\ RLt(Zero, space)
          /\ Commit(addChemicalToExperiment(
                        fillVessel(Store, ShelfBeakerId, "ice", RMin(R(100), space)),
                        "ice"),
                    "addChemicalToExperiment", <<"ice">>, NoTimer, 0)

\* heating on the bench and in the three-phase experiment
NextHeating ==
    \/ HeatingFrame
    \/ DragVessel
    \/ FillHeatedBeaker
    \/ ToggleBunsenBurner
    \/ LoadPhysicalChemical
    \/ PlaceHeatApparatus
    \/ PlaceHeatedBeaker
    \/ AddIce
    \/ CheckReaction

SpecHeating == Init /\ [][NextHeating]_vars

(***************************************************************************)
(* C25: temperatures under the frames of the heating system.               *)
(***************************************************************************)
IsHeatingFrame == last'.op = "heatingFrame"

REq(a, b) == RLe(a, b) /\ RLe(b, a)

\* what a frame may do to the temperatures when the decay is rateOff degrees
\* per second with the burner off and rateAway with the burner on
TemperaturesFollow(rateOff, rateAway) ==
    \A id \in HeatedIds \cap DOMAIN vessels :
        LET t == temperature[id]
            t2 == temperature'[id]
            d == burnerDistance[id]
            delta == last'.args[1]
            inside == bunsenBurnerOn /\ RLt(d, <<7, 10>>)
            rise == RMul(delta, RDiv(RMul(R(15), RSub(<<7, 10>>, d)), <<7, 10>>))
            fall == RMul(delta, IF bunsenBurnerOn THEN rateAway ELSE rateOff)
        IN /\ RLe(R(25), t2) /\ RLe(t2, R(120))
           /\ inside =>
                 /\ RLe(t, t2)
                 /\ REq(t2, IF RLe(R(120), RAdd(t, rise)) THEN R(120) ELSE RAdd(t, rise))
           /\ ~inside =>
                 /\ RLe(t2, t)
                 /\ REq(t2, IF RLe(RSub(t, fall), R(25)) THEN R(25) ELSE RSub(t, fall))

\* the boiling effects a frame adds belong to vessels with liquid and no ice
BoilingNeedsLiquidWithoutIce ==
    \A i \in (Len(activeEffects) + 1)..Len(activeEffects') :
        activeEffects'[i].type = "boiling" =>
            LET v == vessels[activeEffects'[i].vesselId]
            IN /\ RLt(Zero, v.currentVolume)
               /\ \A k \in 1..Len(v.contents) : v.contents[k].chemical # "ice"

\* C25 as stated: under a heating frame every temperature stays in [25, 120];
\* with the burner on and the vessel inside the radius it does not fall and
\* rises by 15 (1 - distance / 0.7) degrees per second; outside the radius, or
\* with the burner off, it decays toward 25 at one fixed rate; and no boiling
\* effect is added for a vessel with ice or without liquid.  The one rate is
\* the 5 degrees per second every vessel loses with the burner off
C25_OneDecayRate ==
    [][IsHeatingFrame =>
          TemperaturesFollow(R(5), R(5)) /\ BoilingNeedsLiquidWithoutIce]_vars

\* C25, amended: the same, with a decay of 5 degrees per second when the
\* burner is off and of 3 degrees per second when the burner is on and the
\* vessel is outside the radius
C25_DecayRatePerCase ==
    [][IsHeatingFrame =>
          TemperaturesFollow(R(5), R(3)) /\ BoilingNeedsLiquidWithoutIce]_vars

\* C25 witness: a frame with the burner on has cooled a vessel outside the
\* radius that is still above 25 degrees, after a boil over the burner
C25_Witness ==
    /\ last.op = "heatingFrame"
    /\ bunsenBurnerOn
    /\ \E id \in HeatedIds \cap DOMAIN vessels :
          /\ RLe(<<7, 10>>, burnerDistance[id])
          /\ RLt(R(25), temperature[id])
          /\ \E i \in 1..Len(activeEffects) :
                activeEffects[i].type = "boiling" /\ activeEffects[i].vesselId = id

(***************************************************************************)
(* C26: the titration after a reset.                                       *)
(***************************************************************************)
\* C26: a resetExperiment of the titration leaves neutralizationComplete and
\* neutralizationAnimating false and the drop count 0, so that the shelf
\* enables sodium hydroxide again and a new run needs its own 5 drops
C26_ResetRearmsTitration ==
    [][(last'.op = "resetExperiment" /\ currentExperiment.id = "neutralization") =>
          /\ ~neutralizationComplete'
          /\ ~neutralizationAnimating'
          /\ neutralizationDropCount' = 0
          /\ ~isChemicalDisabledForNeutralization(Store', "naoh")]_vars

(***************************************************************************)
(* C27: the filtration buffer across attempts.                             *)
(***************************************************************************)
\* the filtration bench with its funnel, and the reset button
NextAttempts == NextFunnel \/ ResetExperiment

SpecAttempts == Init /\ [][NextAttempts]_vars

\* the collection beaker holds liquid of an attempt in which nothing was added
FiltrateWithoutPour ==
    /\ currentExperiment.id = "filtration"
    /\ addedChemicals = <<>>
    /\ "collection_beaker" \in DOMAIN vessels
    /\ RLt(Zero, vessels["collection_beaker"].currentVolume)

\* C27: a resetExperiment or loadExperiment of an experiment leaves the
\* filtration buffer at 0, and the collection beaker of an attempt holds
\* filtrate only after muddy water was added and poured in that attempt
C27_BufferEmptyAcrossAttempts ==
    /\ [][(/\ last'.op \in {"resetExperiment", "loadExperiment"}
           /\ currentExperiment' # NoExperiment) =>
             pendingFiltrationVolume' = Zero]_vars
    /\ [](~FiltrateWithoutPour)

(***************************************************************************)
(* C28: what a reset does to the phase flags of the other family.          *)
(***************************************************************************)
\* C28: resetExperiment leaves saltTested, sandTested and resetAfterSaltTest
\* as they are unless the current experiment is salt-dissolution, leaves
\* iceTested, paperTested and magnesiumTested as they are unless it is
\* physical-chemical, and changes nothing when no experiment is loaded
C28_ResetKeepsOtherFamily ==
    [][last'.op = "resetExperiment" =>
          /\ currentExperiment.id # "salt-dissolution" =>
                UNCHANGED <<saltTested, sandTested, resetAfterSaltTest>>
          /\ currentExperiment.id # "physical-chemical" =>
                UNCHANGED <<iceTested, paperTested, magnesiumTested>>
          /\ currentExperiment = NoExperiment => Store' = Store]_vars

(***************************************************************************)
(* C29: checking the reaction twice.                                       *)
(***************************************************************************)
\* C29: a checkExperimentReaction that directly follows another one leaves the
\* phase flags, the reset prompt and its message, the completion set and the
\* vessels as the first one left them
C29_CheckReactionIdempotent ==
    [][(last.op = "checkExperimentReaction" /\ last'.op = "checkExperimentReaction") =>
          UNCHANGED <<saltTested, sandTested, resetAfterSaltTest,
                      iceTested, paperTested, magnesiumTested,
                      showResetPrompt, resetPromptMessage,
                      completedExperiments, vessels>>]_vars

(***************************************************************************)
(* C30: a deferred applyReaction that comes late.                          *)
(***************************************************************************)
\* C30: a deferred applyReaction replaces the contents of its vessel only if
\* they still hold the reacting pair it was scheduled for, and otherwise
\* leaves them as they are; it never leaves an entry of volume 0
C30_LateReactionInert ==
    [][IsApplyReaction =>
          LET v == last'.timer.vesselId
          IN /\ \/ checkReaction(vessels[v].contents) = last'.timer.reaction
                \/ vessels'[v].contents = vessels[v].contents
             /\ \A i \in 1..Len(vessels'[v].contents) :
                   RLt(Zero, vessels'[v].contents[i].volume)]_vars

====
